---------------------------- MODULE Spec2Model ----------------------------
(***************************************************************************)
(* Drawpile: the client-side session state (src/client/sessionstate.cpp)   *)
(* and the dedicated server (src/server/multiserver.cpp).                  *)
(*                                                                         *)
(* One SessionState object exists per session membership.  It receives     *)
(* the messages the server relays (drawing operations, raster chunks,      *)
(* acknowledgements), buffers drawing operations until the raster          *)
(* snapshot is complete, and uploads a snapshot in chunks when asked to.   *)
(*                                                                         *)
(* One MultiServer object accepts connections, rejects banned addresses,   *)
(* hands the others to the session registry, stops on request or when      *)
(* vacant, and serves the administrative interface.                        *)
(***************************************************************************)
EXTENDS Integers, Sequences, FiniteSets, TLC

(***************************************************************************)
(* Bounds of the model                                                     *)
(***************************************************************************)
\* drawing messages one SessionState receives
MaxDraw == 2
\* Raster messages one SessionState receives
MaxRasterMsgs == 2
\* Acknowledgement messages one SessionState receives
MaxAcks == 2
\* sendRaster calls on one SessionState
MaxUploads == 1
\* largest size and offset field of a received Raster message
MaxSize == 2
\* longest snapshot passed to sendRaster
MaxSnapshot == 3
\* Raster messages an uploading SessionState receives
MaxInterfere == 1
\* operations the session commits
MaxLog == 3
\* connections the listener accepts
MaxConns == 2
\* ban entries ever created
MaxBans == 1
\* ticks of the clock
MaxTime == 1
\* calls of setUserLimit
MaxInstr == 2
\* joins asked of the hosted session
MaxJoins == 3

\* membership and session events a client handles
MaxEvents == 3

\* bytes of the snapshot a joining member is sent
MaxPicture == 5

\* signals a CanvasView emits
MaxEmit == 3

(***************************************************************************)
(* Program constants                                                       *)
(***************************************************************************)
\* sendRasterChunk: unsigned int chunklen = 1024*4.  Scaled down to 2 bytes
\* so that a snapshot of MaxSize bytes takes more than one chunk.
chunklen == 2

\* unsigned int (rasteroffset_, chunklen, the Raster fields) wraps modulo UInt.
\* TLC integers are 32-bit signed, so the width is 30 bits, not 32.
UInt == 2^30

Bytes == {0, 1}

Members == {"A", "C"}

\* user ids carried by drawing messages
UserIds == {1}

DrawTypes == {"ToolInfo", "StrokeInfo", "StrokeEnd"}

AckEvents == {"SyncWait", "SessionSelect", "Raster", "Other"}

ByteSeqs(n) == UNION {[1..k -> Bytes] : k \in 0..n}

VARIABLES
    session,    \* member -> its SessionState object (fields as in the source)
    received,   \* member -> drawing messages handed to its handlers, in order
    nraster,    \* member -> Raster messages handled
    nack,       \* member -> Acknowledgement messages handled
    rasterAcks, \* member -> Acknowledgement(Raster) handled since sendRaster
    nupload,    \* member -> sendRaster calls
    joined,     \* member -> is a member of the session
    log,        \* the session's committed-operation log
    inbox,      \* member -> messages in flight to it, in order
    liveAt,     \* member -> drawing messages received when it went Live, -1 before
    discarded,  \* member -> bytes the last Raster message handled made it discard
    joinedAt,   \* member -> length of the log when it joined
    server,     \* the MultiServer object with its session registry
    config,     \* the server configuration (settings and ban list)
    hosted,     \* the session as the server holds it (user limit, members)
    view        \* the CanvasView object of the local user's window

vars == <<session, received, nraster, nack, rasterAcks, nupload, joined, log, inbox,
          liveAt, discarded, joinedAt, server, config, hosted, view>>

\* the variables of the session and of its members' SessionState objects
sessionVars == <<session, received, nraster, nack, rasterAcks, nupload, joined, log,
                 inbox, liveAt, discarded, joinedAt>>

\* the variables of the clients: the session and the canvas view
clientVars == <<sessionVars, view>>

\* the variables of the server
serverVars == <<server, config, hosted>>

(***************************************************************************)
(* Signals a SessionState emits                                            *)
(***************************************************************************)
Signal(name, user, id, pct) == [sig |-> name, user |-> user, id |-> id, pct |-> pct]

rasterReceived(pct) == Signal("rasterReceived", 0, 0, pct)
rasterSent(pct) == Signal("rasterSent", 0, 0, pct)
toolReceived(msg) == Signal("toolReceived", msg.user_id, msg.id, 0)
strokeReceived(msg) == Signal("strokeReceived", msg.user_id, msg.id, 0)
strokeEndReceived(msg) == Signal("strokeEndReceived", msg.user_id, msg.id, 0)
syncDone == Signal("syncDone", 0, 0, 0)
userLimitChanged(maxusers) == Signal("userLimitChanged", 0, 0, maxusers)

userJoined(id) == Signal("userJoined", id, 0, 0)
userLeft(id) == Signal("userLeft", id, 0, 0)
userLocked(id, lock) == Signal("userLocked", id, 0, IF lock THEN 1 ELSE 0)
sessionLocked(lock) == Signal("sessionLocked", 0, 0, IF lock THEN 1 ELSE 0)
userKicked(id) == Signal("userKicked", id, 0, 0)
ownerChanged == Signal("ownerChanged", 0, 0, 0)

emit(s, signal) == [s EXCEPT !.emitted = Append(@, signal)]

\* host_->net_->send(msg)
send(s, msg) == [s EXCEPT !.sent = Append(@, msg)]

(***************************************************************************)
(* SessionState::SessionState                                              *)
(***************************************************************************)
\* the session information the object is constructed with
SessionInfo ==
    [ id       |-> 1,
      owner    |-> 1,
      maxusers |-> 2,
      mode     |-> 0,
      width    |-> 258,
      height   |-> 3 ]

\* protocol::null_user: the id that names no user
null_user == 0

\* protocol::user_mode::Locked, a bit of the mode flags
Locked == 1

\* fIsSet: the flag is set in the value
fIsSet(value, flag) == (value \div flag) % 2 = 1

\* User::User(name, id, locked, owner)
User(name, id, locked) == [name |-> name, id |-> id, locked |-> locked]

\* host_->localuser_
localuser_ == [name |-> "local", id |-> 1]

SessionState ==
    [ info_          |-> SessionInfo,
      users_         |-> (localuser_.id :>
                             User(localuser_.name, localuser_.id,
                                  fIsSet(SessionInfo.mode, Locked))),
      raster_        |-> <<>>,
      rasteroffset_  |-> 0,
      lock_          |-> FALSE,
      bufferdrawing_ |-> TRUE,
      drawbuffer_    |-> <<>>,
      emitted        |-> <<>>,
      sent           |-> <<>>,
      crashed        |-> FALSE ]

(***************************************************************************)
(* QImage::loadFromData, as sessionImage uses it: the data decodes iff it  *)
(* is a well-formed encoding.  An encoding is well formed iff it starts    *)
(* with the magic byte 1.                                                  *)
(***************************************************************************)
loadFromData(data) == Len(data) > 0 /\ data[1] = 1

\* SessionState::sessionImage: the return value and the image put in `image'
sessionImage(s) ==
    IF s.raster_ = <<>>
    THEN [ok |-> TRUE, image |-> "null"]
    ELSE IF loadFromData(s.raster_) = FALSE
         THEN [ok |-> FALSE, image |-> "unchanged"]
         ELSE [ok |-> TRUE, image |-> "loaded"]

isUploading(s) == Len(s.raster_) > 0 /\ s.rasteroffset_ > 0

releaseRaster_keep(s) == s

releaseRaster(s) == [s EXCEPT !.raster_ = <<>>]


(***************************************************************************)
(* What an out-of-bounds memcpy in sendRasterChunk can do: the process     *)
(* dies, or the chunk goes out with whatever bytes lay behind the buffer   *)
(* (one byte stands for them).                                             *)
(***************************************************************************)
UBOutcomes ==
    {[kind |-> "crash", data |-> <<>>]}
        \cup {[kind |-> "send", data |-> <<b>>] : b \in Bytes}

(***************************************************************************)
(* SessionState::sendRasterChunk.  rasteroffset_ and chunklen are unsigned *)
(* int: the sum and the difference wrap.                                   *)
(***************************************************************************)
chunkLength_full(s) == chunklen

\* the chunk length sendRasterChunk settles on
chunkLength(s) ==
    IF (s.rasteroffset_ + chunklen) % UInt > Len(s.raster_)
    THEN (Len(s.raster_) - s.rasteroffset_) % UInt
    ELSE chunklen

\* the memcpy of sendRasterChunk reads past the end of raster_
readsPastEnd(s) ==
    chunkLength(s) # 0 /\ s.rasteroffset_ + chunkLength(s) > Len(s.raster_)

\* the outcomes sendRasterChunk can have in state s
Outcomes(s) == IF readsPastEnd(s) THEN UBOutcomes ELSE {[kind |-> "defined", data |-> <<>>]}

\* one chunk, sent as sendRasterChunk below sends it
sendRasterChunk_one(s, ub) ==
    LET length == Len(s.raster_)
        len == chunkLength(s)
    IN  IF len = 0
        THEN releaseRaster([s EXCEPT !.rasteroffset_ = 0])
        ELSE IF readsPastEnd(s)
             THEN IF ub.kind = "crash"
                  THEN [s EXCEPT !.crashed = TRUE]
                  ELSE send([s EXCEPT !.rasteroffset_ = (@ + len) % UInt],
                            [type |-> "Raster", session_id |-> s.info_.id, offset |-> s.rasteroffset_,
                             length |-> len, size |-> length, data |-> ub.data])
             ELSE LET msg == [type |-> "Raster", session_id |-> s.info_.id, offset |-> s.rasteroffset_,
                              length |-> len, size |-> length,
                              data |-> SubSeq(s.raster_, s.rasteroffset_ + 1,
                                              s.rasteroffset_ + len)]
                      s1 == send([s EXCEPT !.rasteroffset_ = (@ + len) % UInt], msg)
                  IN  emit(s1, rasterSent(((100 * s1.rasteroffset_) % UInt) \div length))

\* sendRasterChunk pushing every remaining chunk without waiting for the
\* acknowledgements
RECURSIVE sendRasterChunk_blind(_, _)
sendRasterChunk_blind(s, ub) ==
    LET s1 == sendRasterChunk_one(s, ub)
    IN  IF s1.crashed \/ readsPastEnd(s) \/ chunkLength(s) = 0
        THEN s1
        ELSE sendRasterChunk_blind(s1, ub)

\* `ub' is the outcome taken when the memcpy reads past the end of raster_
sendRasterChunk(s, ub) ==
    LET length == Len(s.raster_)
        len == chunkLength(s)
    IN  IF len = 0
        THEN releaseRaster([s EXCEPT !.rasteroffset_ = 0])
        ELSE IF readsPastEnd(s)
             THEN IF ub.kind = "crash"
                  THEN [s EXCEPT !.crashed = TRUE]
                  ELSE send([s EXCEPT !.rasteroffset_ = (@ + len) % UInt],
                            [type |-> "Raster", session_id |-> s.info_.id, offset |-> s.rasteroffset_,
                             length |-> len, size |-> length, data |-> ub.data])
             ELSE LET msg == [type |-> "Raster", session_id |-> s.info_.id, offset |-> s.rasteroffset_,
                              length |-> len, size |-> length,
                              data |-> SubSeq(s.raster_, s.rasteroffset_ + 1,
                                              s.rasteroffset_ + len)]
                      s1 == send([s EXCEPT !.rasteroffset_ = (@ + len) % UInt], msg)
                  IN  emit(s1, rasterSent(((100 * s1.rasteroffset_) % UInt) \div length))

\* SessionState::sendRaster: from offset 0 the memcpy stays inside raster_
sendRaster(s, raster) ==
    LET s1 == [s EXCEPT !.raster_ = raster, !.rasteroffset_ = 0]
    IN  sendRasterChunk(s1, CHOOSE ub \in Outcomes(s1) : TRUE)

\* SessionState::handleAck
handleAck(s, msg, ub) ==
    IF msg.event = "SyncWait" THEN emit(s, syncDone)
    ELSE IF msg.event = "SessionSelect" THEN s
    ELSE IF msg.event = "Raster" THEN sendRasterChunk(s, ub)
    ELSE s

(***************************************************************************)
(* The drawing-message handlers.  A buffered message is kept; the brush    *)
(* or point built from an applied message is identified by the message.    *)
(***************************************************************************)
\* handleToolInfo falling through after it has buffered the message
handleToolInfo_fallthrough(s, msg) ==
    IF s.bufferdrawing_
    THEN emit([s EXCEPT !.drawbuffer_ = Append(@, msg)], toolReceived(msg))
    ELSE emit(s, toolReceived(msg))

\* SessionState::handleToolInfo
handleToolInfo(s, msg) ==
    IF s.bufferdrawing_
    THEN [s EXCEPT !.drawbuffer_ = Append(@, msg)]
    ELSE emit(s, toolReceived(msg))

\* SessionState::handleStrokeInfo
handleStrokeInfo(s, msg) ==
    IF s.bufferdrawing_
    THEN [s EXCEPT !.drawbuffer_ = Append(@, msg)]
    ELSE emit(s, strokeReceived(msg))

\* handleStrokeEnd without the test of bufferdrawing_
handleStrokeEnd_unbuffered(s, msg) == emit(s, strokeEndReceived(msg))

\* SessionState::handleStrokeEnd
handleStrokeEnd(s, msg) ==
    IF s.bufferdrawing_
    THEN [s EXCEPT !.drawbuffer_ = Append(@, msg)]
    ELSE emit(s, strokeEndReceived(msg))

\* the while loop of flushDrawBuffer: dequeue, dispatch on the type
RECURSIVE flushLoop(_, _)
flushLoop(s, fuel) ==
    IF s.drawbuffer_ = <<>> \/ fuel = 0
    THEN s
    ELSE LET msg == Head(s.drawbuffer_)
             s1 == [s EXCEPT !.drawbuffer_ = Tail(@)]
         IN  flushLoop(IF msg.type = "StrokeInfo" THEN handleStrokeInfo(s1, msg)
                       ELSE IF msg.type = "StrokeEnd" THEN handleStrokeEnd(s1, msg)
                       ELSE handleToolInfo(s1, msg),
                       fuel - 1)

\* flushDrawBuffer taking the newest message first (a stack, not a queue)
RECURSIVE flushLoop_lifo(_)
flushLoop_lifo(s) ==
    IF s.drawbuffer_ = <<>>
    THEN s
    ELSE LET n == Len(s.drawbuffer_)
             msg == s.drawbuffer_[n]
             s1 == [s EXCEPT !.drawbuffer_ = SubSeq(@, 1, n - 1)]
         IN  flushLoop_lifo(IF msg.type = "StrokeInfo" THEN handleStrokeInfo(s1, msg)
                            ELSE IF msg.type = "StrokeEnd" THEN handleStrokeEnd(s1, msg)
                            ELSE handleToolInfo(s1, msg))

flushDrawBuffer_lifo(s) == flushLoop_lifo([s EXCEPT !.bufferdrawing_ = FALSE])

\* SessionState::flushDrawBuffer
flushDrawBuffer(s) ==
    flushLoop([s EXCEPT !.bufferdrawing_ = FALSE], Len(s.drawbuffer_))

\* handleRaster going back to buffering when a transfer restarts at offset 0
handleRaster_rebuffer(s, msg) ==
    IF msg.size = 0
    THEN flushDrawBuffer(emit(s, rasterReceived(100)))
    ELSE LET s1 == IF msg.offset = 0
                   THEN [s EXCEPT !.raster_ = <<>>, !.bufferdrawing_ = TRUE]
                   ELSE s
             s2 == [s1 EXCEPT !.raster_ = @ \o msg.data]
         IN  IF (msg.offset + msg.length) % UInt < msg.size
             THEN emit(s2, rasterReceived(
                      ((99 * ((msg.offset + msg.length) % UInt)) % UInt) \div msg.size))
             ELSE flushDrawBuffer(emit(s2, rasterReceived(100)))

\* handleRaster without the truncate(0) of a restarted transfer
handleRaster_notruncate(s, msg) ==
    IF msg.size = 0
    THEN flushDrawBuffer(emit(s, rasterReceived(100)))
    ELSE LET s2 == [s EXCEPT !.raster_ = @ \o msg.data]
         IN  IF (msg.offset + msg.length) % UInt < msg.size
             THEN emit(s2, rasterReceived(
                      ((99 * ((msg.offset + msg.length) % UInt)) % UInt) \div msg.size))
             ELSE flushDrawBuffer(emit(s2, rasterReceived(100)))

\* SessionState::handleRaster
handleRaster(s, msg) ==
    IF msg.size = 0
    THEN flushDrawBuffer(emit(s, rasterReceived(100)))
    ELSE LET s1 == IF msg.offset = 0 THEN [s EXCEPT !.raster_ = <<>>] ELSE s
             s2 == [s1 EXCEPT !.raster_ = @ \o msg.data]
         IN  IF (msg.offset + msg.length) % UInt < msg.size
             THEN emit(s2, rasterReceived(
                      ((99 * ((msg.offset + msg.length) % UInt)) % UInt) \div msg.size))
             ELSE flushDrawBuffer(emit(s2, rasterReceived(100)))

(***************************************************************************)
(* The user limit of the session                                           *)
(***************************************************************************)
\* bswap of a quint16
bswap(x) == (x % 256) * 256 + (x \div 256)

\* memcpy of a quint16: its bytes as they lie in memory, low byte first
memcpy16(x) == <<x % 256, x \div 256>>

\* SessionState::setUserLimit: an Alter instruction with the size and the
\* mode as they are and the new limit
setUserLimit_swapped(s, count) ==
    send(s, [ type       |-> "Instruction",
              command    |-> "Alter",
              session_id |-> s.info_.id,
              length     |-> 4,
              data       |-> memcpy16(bswap(s.info_.width))
                             \o memcpy16(bswap(s.info_.height)),
              aux_data   |-> s.info_.mode,
              aux_data2  |-> count ])

setUserLimit(s, count) ==
    send(s, [ type       |-> "Instruction",
              command    |-> "Alter",
              session_id |-> s.info_.id,
              length     |-> 4,
              data       |-> memcpy16(bswap(s.info_.width))
                             \o memcpy16(bswap(s.info_.height)),
              aux_data   |-> count,
              aux_data2  |-> s.info_.mode ])

\* SessionState::update
update(s, info) ==
    LET s1 == IF s.info_.maxusers # info.maxusers
              THEN emit(s, userLimitChanged(info.maxusers))
              ELSE s
    IN  [s1 EXCEPT !.info_ = info]


(***************************************************************************)
(* Membership and locks: handleUserInfo and handleSessionEvent.  The map   *)
(* host_->usersessions_ that handleUserInfo also clears belongs to the     *)
(* host object; nothing here reads it.                                     *)
(***************************************************************************)
\* user ids of the members the messages name: the local user and two others
MemberIds == {1, 2, 3}

UserEvents == {"Join", "Leave", "Disconnect", "BrokenPipe", "TimedOut", "Dropped",
               "Kicked", "Other"}

\* the events of handleUserInfo's second branch
Departures == {"Leave", "Disconnect", "BrokenPipe", "TimedOut", "Dropped", "Kicked"}

SessionActions == {"Lock", "Unlock", "Kick", "Delegate", "Other"}

UserInfo(event, user_id, mode) ==
    [type |-> "UserInfo", event |-> event, user_id |-> user_id, mode |-> mode,
     name |-> "user"]

SessionEvent(action, target) ==
    [type |-> "SessionEvent", action |-> action, target |-> target]

\* SessionState::hasUser
hasUser(s, id) == id \in DOMAIN s.users_

\* QHash::remove
without(users, id) == [i \in DOMAIN users \ {id} |-> users[i]]

\* users_[id] = user
with(users, id, user) ==
    [i \in DOMAIN users \cup {id} |-> IF i = id THEN user ELSE users[i]]

handleUserInfo_purge(s, msg) ==
    IF msg.event = "Join"
    THEN emit([s EXCEPT !.users_ =
                   with(@, msg.user_id,
                        User(msg.name, msg.user_id, fIsSet(msg.mode, Locked)))],
              userJoined(msg.user_id))
    ELSE IF msg.event \in Departures
    THEN [emit(s, userLeft(msg.user_id)) EXCEPT
             !.users_ = [i \in DOMAIN @ \cap {localuser_.id} |-> @[i]]]
    ELSE s

handleUserInfo(s, msg) ==
    IF msg.event = "Join"
    THEN emit([s EXCEPT !.users_ =
                   with(@, msg.user_id,
                        User(msg.name, msg.user_id, fIsSet(msg.mode, Locked)))],
              userJoined(msg.user_id))
    ELSE IF msg.event \in Departures
    THEN IF hasUser(s, msg.user_id)
         THEN [emit(s, userLeft(msg.user_id)) EXCEPT
                  !.users_ = without(@, msg.user_id)]
         ELSE s
    ELSE s

\* the switch of handleSessionEvent; `user' is the target when the event
\* names a member, null_user when it names none
sessionEventAction(s, msg, user) ==
    CASE msg.action = "Lock" ->
           IF user # null_user
           THEN emit([s EXCEPT !.users_[user].locked = TRUE],
                     userLocked(msg.target, TRUE))
           ELSE emit([s EXCEPT !.lock_ = TRUE], sessionLocked(TRUE))
      [] msg.action = "Unlock" ->
           IF user # null_user
           THEN emit([s EXCEPT !.users_[user].locked = FALSE],
                     userLocked(msg.target, FALSE))
           ELSE emit([s EXCEPT !.lock_ = FALSE], sessionLocked(FALSE))
      [] msg.action = "Kick" -> emit(s, userKicked(msg.target))
      [] msg.action = "Delegate" ->
           emit([s EXCEPT !.info_.owner = msg.target], ownerChanged)
      [] OTHER -> s

handleSessionEvent_nocheck(s, msg) == sessionEventAction(s, msg, msg.target)

handleSessionEvent_alllocks(s, msg) ==
    IF msg.target # null_user /\ ~hasUser(s, msg.target) THEN s
    ELSE LET r == sessionEventAction(s, msg, msg.target)
         IN  IF msg.action \in {"Lock", "Unlock"}
             THEN [r EXCEPT !.lock_ = (msg.action = "Lock")]
             ELSE r

handleSessionEvent(s, msg) ==
    IF msg.target # null_user /\ ~hasUser(s, msg.target) THEN s
    ELSE sessionEventAction(s, msg, msg.target)

(***************************************************************************)
(* The server configuration (ServerConfig, Database) and the JSON values   *)
(* of the administrative interface                                         *)
(***************************************************************************)
\* the settings serverJsonApi reads and writes, in the order of its table
ServerSettings ==
    <<"ClientTimeout", "SessionSizeLimit", "SessionCountLimit", "EnablePersistence",
      "IdleTimeLimit", "ServerTitle", "WelcomeMessage", "AnnounceWhiteList",
      "LocalAddress", "PrivateUserList", "AllowGuests">>

settingCount == Len(ServerSettings)

SettingNames == {ServerSettings[i] : i \in 1..settingCount}

\* peer addresses, two bits wide
AddrBits == 2

Addrs == 0..(2^AddrBits - 1)

\* the text of an address, as a ban request carries it
AddrText == <<"10.0.0.0", "10.0.0.1", "10.0.0.2", "10.0.0.3">>

\* a JSON value: a string, a number, a boolean, an array, or undefined (the key
\* is absent from the object)
JString(str) == [t |-> "string", s |-> str, n |-> 0, b |-> FALSE]
JNumber(num) == [t |-> "number", s |-> "", n |-> num, b |-> FALSE]
JBool(bool) == [t |-> "bool", s |-> "", n |-> 0, b |-> bool]
JArray == [t |-> "array", s |-> "", n |-> 0, b |-> FALSE]
JUndefined == [t |-> "undefined", s |-> "", n |-> 0, b |-> FALSE]

\* decimal text of the numbers the model uses
NumberText == <<"0", "1", "2", "3", "4">>

\* QJsonObject::contains
contains(request, key) == key \in DOMAIN request

\* QJsonObject::operator[]: the value, undefined when the key is absent
valueOf(request, key) == IF contains(request, key) THEN request[key] ELSE JUndefined

\* QJsonValue::toString: the string of a string value, empty otherwise
toString(v) == IF v.t = "string" THEN v.s ELSE ""

\* QJsonValue::toInt: the number of a number value, 0 otherwise
toInt(v) == IF v.t = "number" THEN v.n ELSE 0

\* QJsonValue::toVariant().toString(): strings as they are, numbers and booleans
\* as text, everything else empty
toVariantString(v) ==
    CASE v.t = "string" -> v.s
      [] v.t = "number" -> NumberText[v.n + 1]
      [] v.t = "bool" -> IF v.b THEN "true" ELSE "false"
      [] OTHER -> ""

\* QHostAddress(text): the address, -1 (isNull) when the text is none
QHostAddress(text) ==
    IF \E a \in Addrs : AddrText[a + 1] = text
    THEN CHOOSE a \in Addrs : AddrText[a + 1] = text
    ELSE -1

\* timestamps in the format yyyy-MM-dd HH:mm:ss, by the time they denote
TimeText == <<"2030-01-01 00:00:01", "2030-01-01 00:00:02">>

\* QDateTime::fromString(text, "yyyy-MM-dd HH:mm:ss"): the time, -1 (isNull)
\* when the text does not parse
fromString(text) ==
    IF \E i \in 1..Len(TimeText) : TimeText[i] = text
    THEN CHOOSE i \in 1..Len(TimeText) : TimeText[i] = text
    ELSE -1

\* the configuration after construction: a database when the ban list can be
\* changed, every setting at its default, no ban, the clock at 0
ServerConfig(isDatabase) ==
    [ database |-> isDatabase,
      settings |-> [k \in SettingNames |-> ""],
      bans     |-> {},
      nextBan  |-> 1,
      now      |-> 0 ]

\* ServerConfig::setConfigString
setConfigString(cfg, key, value) == [cfg EXCEPT !.settings[key] = value]

\* ServerConfig::getConfigVariant
getConfigVariant(cfg, key) == cfg.settings[key]

\* a ban entry covers the address itself (subnet size 0) or every address
\* sharing its first `subnet' bits
InSubnet(addr, ip, subnet) ==
    IF subnet = 0 THEN addr = ip
    ELSE LET shift == IF subnet >= AddrBits THEN 0 ELSE AddrBits - subnet
         IN  addr \div (2^shift) = ip \div (2^shift)

\* ServerConfig::isAddressBanned: some entry that has not expired covers it
isAddressBanned(cfg, addr) ==
    \E ban \in cfg.bans : ban.expires > cfg.now /\ InSubnet(addr, ban.ip, ban.subnet)

\* Database::addBan: a new entry under the next numeric id
addBan(cfg, ip, subnet, expiration, comment) ==
    [cfg EXCEPT !.bans = @ \cup {[id |-> cfg.nextBan, ip |-> ip, subnet |-> subnet,
                                  expires |-> expiration, comment |-> comment]},
                !.nextBan = @ + 1]

\* Database::deleteBan: removes the entry of that id
hasBan(cfg, id) == \E ban \in cfg.bans : ban.id = id

deleteBan(cfg, id) == [cfg EXCEPT !.bans = {ban \in @ : ban.id # id}]

(***************************************************************************)
(* The administrative interface: serverJsonApi and banlistJsonApi.  A call *)
(* yields the result and the configuration after it.                       *)
(***************************************************************************)
JsonApiMethods == {"Get", "Create", "Update", "Delete"}

JsonApiResult(status, cfg) == [status |-> status, config |-> cfg]

JsonApiNotFound(cfg) == JsonApiResult("NotFound", cfg)

JsonApiBadMethod(cfg) == JsonApiResult("BadMethod", cfg)

JsonApiErrorResult(status, cfg) == JsonApiResult(status, cfg)

\* the Update loop of serverJsonApi over settings[i .. settingCount]
RECURSIVE updateSettings_reset(_, _, _)
updateSettings_reset(cfg, request, i) ==
    IF i > settingCount THEN cfg
    ELSE updateSettings_reset(
             setConfigString(cfg, ServerSettings[i],
                             toVariantString(valueOf(request, ServerSettings[i]))),
             request, i + 1)

RECURSIVE updateSettings(_, _, _)
updateSettings(cfg, request, i) ==
    IF i > settingCount THEN cfg
    ELSE updateSettings(
             IF contains(request, ServerSettings[i])
             THEN setConfigString(cfg, ServerSettings[i],
                                  toVariantString(request[ServerSettings[i]]))
             ELSE cfg,
             request, i + 1)

serverJsonApi_eager(cfg, method, path, request) ==
    IF path # <<>> THEN JsonApiNotFound(updateSettings(cfg, request, 1))
    ELSE IF method # "Get" /\ method # "Update"
         THEN JsonApiBadMethod(updateSettings(cfg, request, 1))
    ELSE IF method = "Update"
         THEN JsonApiResult("Ok", updateSettings(cfg, request, 1))
         ELSE JsonApiResult("Ok", cfg)

serverJsonApi(cfg, method, path, request) ==
    IF path # <<>> THEN JsonApiNotFound(cfg)
    ELSE IF method # "Get" /\ method # "Update" THEN JsonApiBadMethod(cfg)
    ELSE IF method = "Update"
         THEN JsonApiResult("Ok", updateSettings(cfg, request, 1))
         ELSE JsonApiResult("Ok", cfg)

\* ban ids as path segments: QString::toInt, 0 when the text is no number
BanIdText == <<"1", "2", "3">>

pathToInt(text) ==
    IF \E i \in 1..Len(BanIdText) : BanIdText[i] = text
    THEN CHOOSE i \in 1..Len(BanIdText) : BanIdText[i] = text
    ELSE 0

\* the ban list calls
banlistJsonApi_noexpiry(cfg, method, path, request) ==
    IF ~cfg.database THEN JsonApiNotFound(cfg)
    ELSE IF Len(path) = 1
         THEN IF method # "Delete" THEN JsonApiBadMethod(cfg)
              ELSE IF hasBan(cfg, pathToInt(path[1]))
                   THEN JsonApiResult("Ok", deleteBan(cfg, pathToInt(path[1])))
                   ELSE JsonApiNotFound(cfg)
    ELSE IF path # <<>> THEN JsonApiNotFound(cfg)
    ELSE IF method = "Get" THEN JsonApiResult("Ok", cfg)
    ELSE IF method = "Create"
         THEN LET ip == QHostAddress(toString(valueOf(request, "ip")))
                  subnet == toInt(valueOf(request, "subnet"))
                  expiration == fromString(toString(valueOf(request, "expiration")))
                  comment == toString(valueOf(request, "comment"))
              IN  IF ip = -1 THEN JsonApiErrorResult("BadRequest", cfg)
                  ELSE JsonApiResult("Ok", addBan(cfg, ip, subnet, expiration, comment))
    ELSE JsonApiBadMethod(cfg)

banlistJsonApi(cfg, method, path, request) ==
    IF ~cfg.database THEN JsonApiNotFound(cfg)
    ELSE IF Len(path) = 1
         THEN IF method # "Delete" THEN JsonApiBadMethod(cfg)
              ELSE IF hasBan(cfg, pathToInt(path[1]))
                   THEN JsonApiResult("Ok", deleteBan(cfg, pathToInt(path[1])))
                   ELSE JsonApiNotFound(cfg)
    ELSE IF path # <<>> THEN JsonApiNotFound(cfg)
    ELSE IF method = "Get" THEN JsonApiResult("Ok", cfg)
    ELSE IF method = "Create"
         THEN LET ip == QHostAddress(toString(valueOf(request, "ip")))
                  subnet == toInt(valueOf(request, "subnet"))
                  expiration == fromString(toString(valueOf(request, "expiration")))
                  comment == toString(valueOf(request, "comment"))
              IN  IF ip = -1 THEN JsonApiErrorResult("BadRequest", cfg)
                  ELSE IF expiration = -1 THEN JsonApiErrorResult("BadRequest", cfg)
                  ELSE JsonApiResult("Ok", addBan(cfg, ip, subnet, expiration, comment))
    ELSE JsonApiBadMethod(cfg)

\* SessionServer::callJsonApi: the sessions resource leaves the configuration alone
sessionsJsonApi(cfg, method, path, request) == JsonApiResult("Ok", cfg)

callJsonApi_default(cfg, method, path, request) ==
    IF path = <<>> THEN JsonApiNotFound(cfg)
    ELSE LET head == Head(path)
             tail == Tail(path)
         IN  IF head = "sessions" THEN sessionsJsonApi(cfg, method, tail, request)
             ELSE IF head = "banlist" THEN banlistJsonApi(cfg, method, tail, request)
             ELSE serverJsonApi(cfg, method, tail, request)

\* popApiPath and callJsonApi: the first path segment selects the resource
callJsonApi(cfg, method, path, request) ==
    IF path = <<>> THEN JsonApiNotFound(cfg)
    ELSE LET head == Head(path)
             tail == Tail(path)
         IN  IF head = "server" THEN serverJsonApi(cfg, method, tail, request)
             ELSE IF head = "sessions" THEN sessionsJsonApi(cfg, method, tail, request)
             ELSE IF head = "banlist" THEN banlistJsonApi(cfg, method, tail, request)
             ELSE JsonApiNotFound(cfg)

(***************************************************************************)
(* The server (MultiServer) and its session registry (SessionServer)       *)
(***************************************************************************)
\* the session ids of the registry
SessionIds == {1}

\* the registry after construction: no user, no session.  users maps each
\* connected client to its session, 0 while it is in the lobby
SessionServer == [users |-> <<>>, sessions |-> {}]

\* SessionServer::totalUsers
totalUsers(reg) == Cardinality(DOMAIN reg.users)

\* SessionServer::sessionCount
sessionCount(reg) == Cardinality(reg.sessions)

\* SessionServer::addClient: the client enters the lobby
addClient(reg, client) ==
    [reg EXCEPT !.users = [c \in DOMAIN @ \cup {client} |->
                              IF c = client THEN 0 ELSE @[c]]]

\* the registry's bookkeeping when a client is gone
removeUser(reg, client) ==
    [reg EXCEPT !.users = [c \in DOMAIN @ \ {client} |-> @[c]]]

\* the registry's bookkeeping when a session is gone
removeSession(reg, id) == [reg EXCEPT !.sessions = @ \ {id}]

\* the server after construction.  peers lists the addresses of the clients
\* created so far, kicked those rejected as banned; closes, stopAlls and
\* serverStopped count the calls of m_server->close() and stopAll() and the
\* emissions of the signal; autoStopped tells that tryAutoStop called stop(),
\* reentered that the handler of userDisconnected ran while stopAll() did
MultiServer ==
    [ m_state      |-> "NOT_STARTED",
      m_autoStop   |-> FALSE,
      m_server     |-> "null",
      m_sessions   |-> SessionServer,
      peers        |-> <<>>,
      kicked       |-> {},
      closes       |-> 0,
      stopAlls     |-> 0,
      serverStopped |-> 0,
      autoStopped  |-> FALSE,
      reentered    |-> FALSE,
      crashed      |-> FALSE ]

setAutoStop(s, autostop) == [s EXCEPT !.m_autoStop = autostop]

\* createServer: without a valid certificate no server object is made
createServer(s, validCert) ==
    IF validCert THEN [s EXCEPT !.m_server = "created"] ELSE s

\* start and startFd: listen on the address or on the passed descriptor
start(s, validCert, listens) ==
    LET s1 == [s EXCEPT !.m_state = "RUNNING"]
    IN  IF ~validCert THEN createServer(s1, FALSE)
        ELSE IF ~listens
             THEN [createServer(s1, TRUE) EXCEPT !.m_server = "null",
                                                   !.m_state = "NOT_STARTED"]
             ELSE [createServer(s1, TRUE) EXCEPT !.m_server = "listening"]

\* newClient: a client object for the next pending connection; a banned
\* address is kicked, any other handed to the registry
newClient_noban(s, cfg, addr) ==
    LET client == Len(s.peers) + 1
    IN  [s EXCEPT !.peers = Append(@, addr),
                  !.m_sessions = addClient(@, client)]

newClient(s, cfg, addr) ==
    LET client == Len(s.peers) + 1
        s1 == [s EXCEPT !.peers = Append(@, addr)]
    IN  IF isAddressBanned(cfg, addr)
        THEN [s1 EXCEPT !.kicked = @ \cup {client}]
        ELSE [s1 EXCEPT !.m_sessions = addClient(@, client)]

\* m_server->close() on the listener; undefined when there is none: the call
\* either ends the process or returns
closeOutcomes(s) == IF s.m_server = "null" THEN {"crash", "return"} ELSE {"defined"}

closeServer(s, ub) ==
    IF s.m_server = "null"
    THEN IF ub = "crash" THEN [s EXCEPT !.crashed = TRUE] ELSE s
    ELSE [s EXCEPT !.m_server = "closed", !.closes = @ + 1]

RECURSIVE stopAll(_, _, _)
RECURSIVE stop(_, _, _, _)
RECURSIVE tryAutoStop(_, _)
RECURSIVE userDisconnected(_, _)

\* the least element of a non-empty set of numbers
Least(set) == CHOOSE x \in set : \A y \in set : x <= y

\* the first half of stop(): a RUNNING server goes STOPPING, closes the
\* listener and tells the registry to stop everything
beginStop_noclose(s, ub, sync, ends) ==
    IF s.m_state = "RUNNING"
    THEN stopAll([s EXCEPT !.m_state = "STOPPING", !.stopAlls = @ + 1], sync, ends)
    ELSE s

beginStop_again(s, ub, sync, ends) ==
    IF s.m_state \in {"RUNNING", "STOPPING"}
    THEN LET s1 == closeServer([s EXCEPT !.m_state = "STOPPING"], ub)
         IN  IF s1.crashed THEN s1
             ELSE stopAll([s1 EXCEPT !.stopAlls = @ + 1], sync, ends)
    ELSE s

beginStop(s, ub, sync, ends) ==
    IF s.m_state = "RUNNING"
    THEN LET s1 == closeServer([s EXCEPT !.m_state = "STOPPING"], ub)
         IN  IF s1.crashed THEN s1
             ELSE stopAll([s1 EXCEPT !.stopAlls = @ + 1], sync, ends)
    ELSE s

\* the second half of stop(): a STOPPING server without users is STOPPED
finishStop_nodrain(s) ==
    IF ~s.crashed /\ s.m_state = "STOPPING"
    THEN [s EXCEPT !.m_state = "STOPPED", !.serverStopped = @ + 1]
    ELSE s

finishStop_anystate(s) ==
    IF ~s.crashed /\ s.m_state \in {"STOPPING", "STOPPED"}
       /\ totalUsers(s.m_sessions) = 0
    THEN [s EXCEPT !.m_state = "STOPPED", !.serverStopped = @ + 1]
    ELSE s

finishStop_fromrunning(s) ==
    IF ~s.crashed /\ s.m_state \in {"RUNNING", "STOPPING"}
       /\ totalUsers(s.m_sessions) = 0
    THEN [s EXCEPT !.m_state = "STOPPED", !.serverStopped = @ + 1]
    ELSE s

finishStop(s) ==
    IF ~s.crashed /\ s.m_state = "STOPPING" /\ totalUsers(s.m_sessions) = 0
    THEN [s EXCEPT !.m_state = "STOPPED", !.serverStopped = @ + 1]
    ELSE s

\* stop(): ub is the outcome of closing a listener that does not exist; sync
\* and ends are the users that disconnect and the sessions that end while
\* stopAll() runs
stop(s, ub, sync, ends) == finishStop(beginStop(s, ub, sync, ends))

\* tryAutoStop: stop if vacant and auto-stop is enabled
tryAutoStop_anycount(s, ub) ==
    IF s.m_state = "RUNNING" /\ s.m_autoStop
    THEN stop([s EXCEPT !.autoStopped = TRUE], ub, {}, {})
    ELSE s

tryAutoStop(s, ub) ==
    IF s.m_state = "RUNNING" /\ s.m_autoStop /\ sessionCount(s.m_sessions) = 0
       /\ totalUsers(s.m_sessions) = 0
    THEN stop([s EXCEPT !.autoStopped = TRUE], ub, {}, {})
    ELSE s

\* the handler of the registry's userDisconnected signal
userDisconnected_notry(s, ub) ==
    IF s.m_state = "STOPPING" THEN stop(s, ub, {}, {}) ELSE s

userDisconnected(s, ub) ==
    IF s.m_state = "STOPPING" THEN stop(s, ub, {}, {}) ELSE tryAutoStop(s, ub)

\* SessionServer::stopAll: every session is told to terminate.  The users in
\* sync disconnect and the sessions in ends end before it returns, each
\* raising its signal; the others follow later
stopAll(s, sync, ends) ==
    IF sync # {}
    THEN LET client == Least(sync)
         IN  stopAll(userDisconnected([s EXCEPT !.m_sessions = removeUser(@, client),
                                                !.reentered = TRUE],
                                      "defined"),
                     sync \ {client}, ends)
    ELSE IF ends # {}
    THEN LET id == Least(ends)
         IN  stopAll(tryAutoStop([s EXCEPT !.m_sessions = removeSession(@, id)],
                                 "defined"),
                     sync, ends \ {id})
    ELSE s

(***************************************************************************)
(* The session as the server holds it                                      *)
(***************************************************************************)
\* the session a client hosts as the server holds it: limit, mode and size,
\* the members, the last user id given out; attempts counts the joins asked
\* for and refused names those refused as Full; handled counts the
\* instructions of the owner taken in and asked lists the limits the owner
\* passed to setUserLimit
HostedSession ==
    [ maxusers |-> SessionInfo.maxusers,
      mode     |-> SessionInfo.mode,
      width    |-> SessionInfo.width,
      height   |-> SessionInfo.height,
      users    |-> {},
      lastId   |-> 0,
      attempts |-> 0,
      refused  |-> {},
      handled  |-> 0,
      asked    |-> <<>> ]

\* Session.join: Full at the limit, otherwise a member under a fresh id
join(h) ==
    IF Cardinality(h.users) >= h.maxusers
    THEN [h EXCEPT !.attempts = @ + 1, !.refused = @ \cup {h.attempts + 1}]
    ELSE [h EXCEPT !.attempts = @ + 1, !.lastId = @ + 1,
                   !.users = @ \cup {h.lastId + 1}]

\* Session.leave
leave(h, user) == [h EXCEPT !.users = @ \ {user}]

\* the session takes in an Alter instruction: size, limit and mode as sent
alter(h, msg) ==
    [h EXCEPT !.width = msg.data[1] * 256 + msg.data[2],
              !.height = msg.data[3] * 256 + msg.data[4],
              !.maxusers = msg.aux_data,
              !.mode = msg.aux_data2,
              !.handled = @ + 1]

\* the session information the server announces
infoOf(h, info) ==
    [info EXCEPT !.maxusers = h.maxusers, !.mode = h.mode,
                 !.width = h.width, !.height = h.height]

(***************************************************************************)
(* CanvasView: pointer events to stroke signals                            *)
(***************************************************************************)
\* the signals a CanvasView emits to the drawing tools (arguments left out)
penDown == Signal("penDown", 0, 0, 0)
penMove == Signal("penMove", 0, 0, 0)
penUp == Signal("penUp", 0, 0, 0)
quickAdjust == Signal("quickAdjust", 0, 0, 0)

\* m_pendown is NOTDOWN, MOUSEDOWN or TABLETDOWN; m_specialpenmode is
\* NOSPECIALPENMODE, COLORPICK or LAYERPICK; m_dragmode and m_dragButtonState
\* are None, Translate, Rotate, Zoom or QuickAdjust1
Buttons == {"LeftButton", "RightButton", "MidButton", "NoButton"}

\* CanvasView::CanvasView followed by setCanvas; hasImage is what
\* m_scene->hasImage() answers, emitted the signals emitted so far
CanvasView ==
    [m_pendown |-> "NOTDOWN", m_specialpenmode |-> "NOSPECIALPENMODE",
     m_dragmode |-> "None", m_dragButtonState |-> "None",
     m_locked |-> FALSE, hasImage |-> FALSE, emitted |-> <<>>]

\* CanvasView::setLocked
setLocked(v, lock) == [v EXCEPT !.m_locked = lock]

\* CanvasView::doQuickAdjust1 without the test of the pen
doQuickAdjust1_always(v) == emit(v, quickAdjust)

\* CanvasView::doQuickAdjust1
doQuickAdjust1(v) ==
    IF v.m_pendown = "NOTDOWN" THEN emit(v, quickAdjust) ELSE v

\* CanvasView::startDrag
startDrag(v, mode) == [v EXCEPT !.m_dragmode = mode]

\* CanvasView::moveDrag; dy is the vertical distance dragged
moveDrag(v, dy) ==
    IF v.m_dragmode = "QuickAdjust1" /\ dy # 0 THEN doQuickAdjust1(v) ELSE v

\* CanvasView::stopDrag
stopDrag(v) == [v EXCEPT !.m_dragmode = "None"]

\* CanvasView::onPenDown; a pick of a layer or a color emits no stroke signal
onPenDown(v) ==
    IF v.hasImage /\ ~v.m_locked
    THEN IF v.m_specialpenmode # "NOSPECIALPENMODE" THEN v ELSE emit(v, penDown)
    ELSE v

\* CanvasView::onPenMove
onPenMove(v) ==
    IF v.hasImage /\ ~v.m_locked
    THEN IF v.m_specialpenmode # "NOSPECIALPENMODE" THEN v ELSE emit(v, penMove)
    ELSE v

\* CanvasView::onPenUp
onPenUp(v) ==
    LET v1 == IF ~v.m_locked /\ v.m_specialpenmode = "NOSPECIALPENMODE"
              THEN emit(v, penUp)
              ELSE v
    IN  [v1 EXCEPT !.m_specialpenmode = "NOSPECIALPENMODE"]

\* CanvasView::penPressEvent
penPressEvent(v, button, ctrl, shift, isStylus) ==
    IF v.m_pendown # "NOTDOWN" THEN v
    ELSE IF button = "MidButton" \/ v.m_dragButtonState # "None"
    THEN startDrag(v, IF v.m_dragButtonState # "None" THEN v.m_dragButtonState
                      ELSE IF ctrl THEN "Zoom"
                      ELSE IF shift THEN "QuickAdjust1"
                      ELSE "Translate")
    ELSE IF button \in {"LeftButton", "RightButton"} /\ v.m_dragmode = "None"
    THEN onPenDown([v EXCEPT
            !.m_pendown = IF isStylus THEN "TABLETDOWN" ELSE "MOUSEDOWN",
            !.m_specialpenmode = IF ctrl
                                 THEN (IF shift THEN "LAYERPICK" ELSE "COLORPICK")
                                 ELSE "NOSPECIALPENMODE"])
    ELSE v

\* CanvasView::penMoveEvent; moved: the pointer is at another point than before
penMoveEvent(v, moved, dy) ==
    IF v.m_dragmode # "None" THEN moveDrag(v, dy)
    ELSE IF moved /\ v.m_pendown # "NOTDOWN" THEN onPenMove(v)
    ELSE v

\* CanvasView::penReleaseEvent
penReleaseEvent(v, button) ==
    IF v.m_dragmode # "None" THEN stopDrag(v)
    ELSE IF \/ v.m_pendown = "TABLETDOWN"
            \/ button \in {"LeftButton", "RightButton"} /\ v.m_pendown = "MOUSEDOWN"
    THEN [onPenUp(v) EXCEPT !.m_pendown = "NOTDOWN"]
    ELSE v

\* CanvasView::wheelEvent
wheelEvent(v, ctrl, shift) ==
    IF ctrl THEN v
    ELSE IF shift THEN doQuickAdjust1(v)
    ELSE v

\* CanvasView::keyPressEvent of the space bar
keyPressEvent(v, ctrl) ==
    [v EXCEPT !.m_dragButtonState = IF ctrl THEN "Rotate" ELSE "Translate"]

\* CanvasView::keyReleaseEvent of the space bar
keyReleaseEvent(v) == [v EXCEPT !.m_dragButtonState = "None"]

\* the server side at rest: constructed, not started
ServerAtRest ==
    /\ server = MultiServer
    /\ config = ServerConfig(TRUE)
    /\ hosted = HostedSession

(***************************************************************************)
(* Messages and calls                                                      *)
(***************************************************************************)
DrawMsg(type, user, id) == [type |-> type, user_id |-> user, id |-> id]

RasterMsg(offset, size, data) ==
    [type |-> "Raster", offset |-> offset, length |-> Len(data), size |-> size,
     data |-> data]

\* the Raster messages a member may receive; a chunk is at most chunklen long
RasterMsgs ==
    {RasterMsg(o, z, d) : o \in 0..MaxSize, z \in 0..MaxSize, d \in ByteSeqs(chunklen)}

AckMsg(event) == [type |-> "Acknowledgement", event |-> event]

Alive(m) == joined[m] /\ ~session[m].crashed

Buffering(m) == joined[m] /\ session[m].bufferdrawing_

Live(m) == joined[m] /\ ~session[m].bufferdrawing_

\* the handler of a drawing message, by its type
handleDraw(s, msg) ==
    IF msg.type = "ToolInfo" THEN handleToolInfo(s, msg)
    ELSE IF msg.type = "StrokeInfo" THEN handleStrokeInfo(s, msg)
    ELSE handleStrokeEnd(s, msg)

\* liveAt after member m's state became s1
LiveAt(m, s1) ==
    IF session[m].bufferdrawing_ /\ ~s1.bufferdrawing_
    THEN [liveAt EXCEPT ![m] = Len(received[m])]
    ELSE liveAt

(***************************************************************************)
(* Actions on one SessionState                                             *)
(***************************************************************************)
\* a drawing message arrives
RecvDraw(m) ==
    /\ Alive(m)
    /\ Len(received[m]) < MaxDraw
    /\ \E type \in DrawTypes, user \in UserIds :
          LET msg == DrawMsg(type, user, Len(received[m]) + 1)
          IN  /\ session' = [session EXCEPT ![m] = handleDraw(@, msg)]
              /\ received' = [received EXCEPT ![m] = Append(@, msg)]
    /\ UNCHANGED <<serverVars, view>>
    /\ UNCHANGED <<nraster, nack, rasterAcks, nupload, joined, log, inbox, liveAt, discarded, joinedAt>>

\* a Raster message arrives
RecvRaster(m, msgs, max) ==
    /\ Alive(m)
    /\ nraster[m] < max
    /\ \E msg \in msgs :
          LET s1 == handleRaster(session[m], msg)
          IN  /\ session' = [session EXCEPT ![m] = s1]
              /\ liveAt' = LiveAt(m, s1)
              /\ discarded' = [discarded EXCEPT
                                 ![m] = IF msg.size # 0 /\ msg.offset = 0
                                        THEN Len(session[m].raster_) ELSE 0]
    /\ nraster' = [nraster EXCEPT ![m] = @ + 1]
    /\ UNCHANGED <<serverVars, view>>
    /\ UNCHANGED <<received, nack, rasterAcks, nupload, joined, log, inbox, joinedAt>>

\* an Acknowledgement arrives
RecvAck(m) ==
    /\ Alive(m)
    /\ nack[m] < MaxAcks
    /\ \E event \in AckEvents, ub \in Outcomes(session[m]) :
          /\ session' = [session EXCEPT ![m] = handleAck(@, AckMsg(event), ub)]
          /\ rasterAcks' = [rasterAcks EXCEPT
                              ![m] = IF event = "Raster" THEN @ + 1 ELSE @]
    /\ nack' = [nack EXCEPT ![m] = @ + 1]
    /\ UNCHANGED <<serverVars, view>>
    /\ UNCHANGED <<received, nraster, nupload, joined, log, inbox, liveAt, discarded, joinedAt>>

\* the controller starts a snapshot upload; `sent' restarts with the transfer
CallSendRaster(m) ==
    /\ Alive(m)
    /\ nupload[m] < MaxUploads
    /\ \E raster \in ByteSeqs(MaxSnapshot) :
          session' = [session EXCEPT
                        ![m] = sendRaster([@ EXCEPT !.sent = <<>>], raster)]
    /\ rasterAcks' = [rasterAcks EXCEPT ![m] = 0]
    /\ nupload' = [nupload EXCEPT ![m] = @ + 1]
    /\ UNCHANGED <<serverVars, view>>
    /\ UNCHANGED <<received, nraster, nack, joined, log, inbox, liveAt, discarded, joinedAt>>

(***************************************************************************)
(* Spec: the join of one member, Joiner, under every sequence of drawing   *)
(* and Raster messages.                                                    *)
(***************************************************************************)
Joiner == "C"

Init ==
    /\ session = [m \in Members |-> SessionState]
    /\ received = [m \in Members |-> <<>>]
    /\ nraster = [m \in Members |-> 0]
    /\ nack = [m \in Members |-> 0]
    /\ rasterAcks = [m \in Members |-> 0]
    /\ nupload = [m \in Members |-> 0]
    /\ joined = [m \in Members |-> m = Joiner]
    /\ log = <<>>
    /\ inbox = [m \in Members |-> <<>>]
    /\ liveAt = [m \in Members |-> -1]
    /\ discarded = [m \in Members |-> 0]
    /\ joinedAt = [m \in Members |-> 0]
    /\ view = CanvasView
    /\ ServerAtRest

Next ==
    \/ RecvDraw(Joiner)
    \/ RecvRaster(Joiner, RasterMsgs, MaxRasterMsgs)

Spec == Init /\ [][Next]_vars

(***************************************************************************)
(* SpecUpload: the snapshot upload of one member, Provider, under every    *)
(* sequence of sendRaster calls, Acknowledgements and Raster messages.     *)
(***************************************************************************)
Provider == "A"

\* the Raster messages that reach a member while it uploads: a one-byte transfer,
\* started or restarted (offset 0) or continued, with or without its byte
InterfereMsgs == {RasterMsg(o, 1, d) : o \in {0, 1}, d \in ByteSeqs(1)}

\* a zero-size Raster message, all fields zeroed
ZeroRaster == RasterMsg(0, 0, <<>>)

\* the state of a member that joined an empty session: constructed, then Live
\* on the zero-size Raster message
Hosting == handleRaster(SessionState, ZeroRaster)

InitUpload ==
    /\ session = [m \in Members |-> IF m = Provider THEN Hosting ELSE SessionState]
    /\ received = [m \in Members |-> <<>>]
    /\ nraster = [m \in Members |-> 0]
    /\ nack = [m \in Members |-> 0]
    /\ rasterAcks = [m \in Members |-> 0]
    /\ nupload = [m \in Members |-> 0]
    /\ joined = [m \in Members |-> m = Provider]
    /\ log = <<>>
    /\ inbox = [m \in Members |-> <<>>]
    /\ liveAt = [m \in Members |-> IF m = Provider THEN 0 ELSE -1]
    /\ discarded = [m \in Members |-> 0]
    /\ joinedAt = [m \in Members |-> 0]
    /\ view = CanvasView
    /\ ServerAtRest

NextUpload ==
    \/ CallSendRaster(Provider)
    \/ RecvAck(Provider)
    \/ RecvRaster(Provider, InterfereMsgs, MaxInterfere)

SpecUpload == InitUpload /\ [][NextUpload]_vars

(***************************************************************************)
(* SpecSession: one session with the members Provider and Joiner.  The     *)
(* session commits drawing operations to its log and fans each out, in     *)
(* commit order, to the members of that moment; every connection delivers  *)
(* in order.  Provider hosts the session; members leave and join again.    *)
(***************************************************************************)
\* the snapshots the session relays to a joining member, each in one chunk
Snapshots == {ZeroRaster, RasterMsg(0, 1, <<1>>)}

IsRaster(msg) == msg.type = "Raster"

IsDraw(msg) == msg.type \in DrawTypes

InitSession ==
    /\ session = [m \in Members |-> IF m = Provider THEN Hosting ELSE SessionState]
    /\ received = [m \in Members |-> <<>>]
    /\ nraster = [m \in Members |-> 0]
    /\ nack = [m \in Members |-> 0]
    /\ rasterAcks = [m \in Members |-> 0]
    /\ nupload = [m \in Members |-> 0]
    /\ joined = [m \in Members |-> m = Provider]
    /\ log = <<>>
    /\ inbox = [m \in Members |-> <<>>]
    /\ liveAt = [m \in Members |-> IF m = Provider THEN 0 ELSE -1]
    /\ discarded = [m \in Members |-> 0]
    /\ joinedAt = [m \in Members |-> 0]
    /\ view = CanvasView
    /\ ServerAtRest

\* Session.join: the member's SessionState is constructed
Join(m) ==
    /\ ~joined[m]
    /\ joined' = [joined EXCEPT ![m] = TRUE]
    /\ joinedAt' = [joinedAt EXCEPT ![m] = Len(log)]
    /\ UNCHANGED <<serverVars, view>>
    /\ UNCHANGED <<session, received, nraster, nack, rasterAcks, nupload, log, inbox,
                   liveAt, discarded>>

\* Session.leave: the member's SessionState and what is in flight to it are gone
Leave(m) ==
    /\ joined[m]
    /\ joined' = [joined EXCEPT ![m] = FALSE]
    /\ session' = [session EXCEPT ![m] = SessionState]
    /\ received' = [received EXCEPT ![m] = <<>>]
    /\ inbox' = [inbox EXCEPT ![m] = <<>>]
    /\ liveAt' = [liveAt EXCEPT ![m] = -1]
    /\ joinedAt' = [joinedAt EXCEPT ![m] = 0]
    /\ UNCHANGED <<serverVars, view>>
    /\ UNCHANGED <<nraster, nack, rasterAcks, nupload, log, discarded>>

\* the snapshot of a joining member is relayed to it, once per membership
Snapshot(m) ==
    /\ Buffering(m)
    /\ \A i \in 1..Len(inbox[m]) : ~IsRaster(inbox[m][i])
    /\ \E msg \in Snapshots : inbox' = [inbox EXCEPT ![m] = Append(@, msg)]
    /\ UNCHANGED <<serverVars, view>>
    /\ UNCHANGED <<session, received, nraster, nack, rasterAcks, nupload, joined, log,
                   liveAt, discarded, joinedAt>>

\* Session.broadcast: commit the operation, then fan it out
Broadcast ==
    /\ Len(log) < MaxLog
    /\ \E type \in DrawTypes, user \in UserIds :
          LET msg == DrawMsg(type, user, Len(log) + 1)
          IN  /\ log' = Append(log, msg)
              /\ inbox' = [m \in Members |->
                              IF joined[m] THEN Append(inbox[m], msg) ELSE inbox[m]]
    /\ UNCHANGED <<serverVars, view>>
    /\ UNCHANGED <<session, received, nraster, nack, rasterAcks, nupload, joined,
                   liveAt, discarded, joinedAt>>

\* the next message in flight to member m reaches its handler
Deliver(m) ==
    /\ joined[m]
    /\ inbox[m] # <<>>
    /\ LET msg == Head(inbox[m])
           s1 == IF IsRaster(msg) THEN handleRaster(session[m], msg)
                 ELSE handleDraw(session[m], msg)
       IN  /\ session' = [session EXCEPT ![m] = s1]
           /\ received' = [received EXCEPT
                             ![m] = IF IsDraw(msg) THEN Append(@, msg) ELSE @]
           /\ liveAt' = LiveAt(m, s1)
    /\ inbox' = [inbox EXCEPT ![m] = Tail(@)]
    /\ UNCHANGED <<serverVars, view>>
    /\ UNCHANGED <<nraster, nack, rasterAcks, nupload, joined, log, discarded, joinedAt>>

NextSession ==
    \/ \E m \in Members : Join(m)
    \/ \E m \in Members : Leave(m)
    \/ \E m \in Members : Snapshot(m)
    \/ Broadcast
    \/ \E m \in Members : Deliver(m)

SpecSession == InitSession /\ [][NextSession]_vars

(***************************************************************************)
(* SpecServer: the server from construction on, under every sequence of    *)
(* start and stop calls, connections, logins, disconnects, session ends,   *)
(* ban list calls and clock ticks.                                         *)
(***************************************************************************)
Running == ~server.crashed

\* the addresses connections come from
PeerAddrs == {0, 3}

\* the bodies of the ban list calls: an address or none, a subnet size or
\* none, an expiration that parses or not
BanRequests ==
    {[k \in keys |-> CASE k = "ip" -> JString(ip)
                       [] k = "subnet" -> JNumber(1)
                       [] k = "expiration" -> JString(exp)] :
        keys \in {{"ip", "expiration"}, {"ip", "subnet", "expiration"}},
        ip \in {AddrText[1], AddrText[4], "localhost"},
        exp \in {TimeText[1], "tomorrow"}}

BanCalls ==
    {[method |-> "Create", path |-> <<>>, request |-> r] : r \in BanRequests}
    \cup {[method |-> "Delete", path |-> <<BanIdText[1]>>, request |-> <<>>],
          [method |-> "Get", path |-> <<>>, request |-> <<>>]}

\* main() sets auto-stop before it starts the server
SetAutoStop ==
    /\ Running
    /\ \E autostop \in BOOLEAN :
          /\ autostop # server.m_autoStop
          /\ server' = setAutoStop(server, autostop)
    /\ UNCHANGED <<config, hosted>>
    /\ UNCHANGED clientVars

Start ==
    /\ Running
    /\ server.m_state = "NOT_STARTED"
    /\ \E validCert \in BOOLEAN, listens \in BOOLEAN :
          server' = start(server, validCert, listens)
    /\ UNCHANGED <<config, hosted>>
    /\ UNCHANGED clientVars

\* the listener signals a new connection
NewConnection ==
    /\ Running
    /\ server.m_server = "listening"
    /\ Len(server.peers) < MaxConns
    /\ \E addr \in PeerAddrs : server' = newClient(server, config, addr)
    /\ UNCHANGED <<config, hosted>>
    /\ UNCHANGED clientVars

\* a client in the lobby hosts or joins a session
Login ==
    /\ Running
    /\ server.m_state = "RUNNING"
    /\ \E client \in DOMAIN server.m_sessions.users, id \in SessionIds :
          /\ server.m_sessions.users[client] = 0
          /\ server' = [server EXCEPT !.m_sessions.users[client] = id,
                                      !.m_sessions.sessions = @ \cup {id}]
    /\ UNCHANGED <<config, hosted>>
    /\ UNCHANGED clientVars

\* a client disconnects: the registry drops it and raises userDisconnected
UserDisconnect ==
    /\ Running
    /\ \E client \in DOMAIN server.m_sessions.users, ub \in closeOutcomes(server) :
          server' = userDisconnected(
                        [server EXCEPT !.m_sessions = removeUser(@, client)], ub)
    /\ UNCHANGED <<config, hosted>>
    /\ UNCHANGED clientVars

\* a session without users ends: the registry drops it and raises sessionEnded
SessionEnd ==
    /\ Running
    /\ \E id \in server.m_sessions.sessions, ub \in closeOutcomes(server) :
          /\ \A client \in DOMAIN server.m_sessions.users :
                server.m_sessions.users[client] # id
          /\ server' = tryAutoStop(
                           [server EXCEPT !.m_sessions = removeSession(@, id)], ub)
    /\ UNCHANGED <<config, hosted>>
    /\ UNCHANGED clientVars

\* stop() is called from outside
Stop ==
    /\ Running
    /\ \E ub \in closeOutcomes(server),
          sync \in SUBSET (DOMAIN server.m_sessions.users),
          ends \in SUBSET server.m_sessions.sessions :
          /\ server.m_state # "RUNNING" => sync = {} /\ ends = {}
          /\ server' = stop(server, ub, sync, ends)
    /\ UNCHANGED <<config, hosted>>
    /\ UNCHANGED clientVars

\* an administrative call on the ban list
BanlistCall_kick ==
    /\ Running
    /\ \E call \in BanCalls :
          LET result == callJsonApi(config, call.method, <<"banlist">> \o call.path,
                                    call.request)
              banned == {client \in DOMAIN server.m_sessions.users :
                            isAddressBanned(result.config, server.peers[client])}
          IN  /\ result.config.nextBan <= MaxBans + 1
              /\ config' = result.config
              /\ server' = [server EXCEPT
                              !.m_sessions.users = [c \in DOMAIN @ \ banned |-> @[c]]]
    /\ UNCHANGED hosted
    /\ UNCHANGED clientVars

BanlistCall ==
    /\ Running
    /\ \E call \in BanCalls :
          LET result == callJsonApi(config, call.method, <<"banlist">> \o call.path,
                                    call.request)
          IN  /\ result.config.nextBan <= MaxBans + 1
              /\ config' = result.config
    /\ UNCHANGED <<server, hosted>>
    /\ UNCHANGED clientVars

\* time passes: ban entries expire
Tick ==
    /\ Running
    /\ config.now < MaxTime
    /\ config' = [config EXCEPT !.now = @ + 1]
    /\ UNCHANGED <<server, hosted>>
    /\ UNCHANGED clientVars

\* the server is constructed over a configuration that is a database or a plain
\* one (multiserver.cpp:41-48, 347)
InitServer ==
    /\ session = [m \in Members |-> SessionState]
    /\ received = [m \in Members |-> <<>>]
    /\ nraster = [m \in Members |-> 0]
    /\ nack = [m \in Members |-> 0]
    /\ rasterAcks = [m \in Members |-> 0]
    /\ nupload = [m \in Members |-> 0]
    /\ joined = [m \in Members |-> FALSE]
    /\ log = <<>>
    /\ inbox = [m \in Members |-> <<>>]
    /\ liveAt = [m \in Members |-> -1]
    /\ discarded = [m \in Members |-> 0]
    /\ joinedAt = [m \in Members |-> 0]
    /\ view = CanvasView
    /\ server = MultiServer
    /\ config \in {ServerConfig(isDatabase) : isDatabase \in BOOLEAN}
    /\ hosted = HostedSession

NextServer ==
    \/ SetAutoStop
    \/ Start
    \/ NewConnection
    \/ Login
    \/ UserDisconnect
    \/ SessionEnd
    \/ Stop
    \/ BanlistCall
    \/ Tick

SpecServer == InitServer /\ [][NextServer]_vars

\* SpecServer with every connected user disconnecting sooner or later
SpecServerFair == SpecServer /\ WF_vars(UserDisconnect)

(***************************************************************************)
(* SpecAdmin: the administrative interface on the server settings and the  *)
(* ban list, under every sequence of calls.                                *)
(***************************************************************************)
\* the keys the bodies of the calls carry: the first, a middle and the last
\* setting of the table, and a key that is no setting
RequestKeys == {ServerSettings[1], ServerSettings[6], ServerSettings[settingCount], "Unknown"}

RequestValues == {JString("t"), JNumber(3), JBool(TRUE), JArray}

\* the bodies: any of the keys, each with any of the values
ServerRequests == UNION {[keys -> RequestValues] : keys \in SUBSET RequestKeys}

\* an administrative call on the server settings; only an Update reads the body
ServerCall ==
    /\ Running
    /\ \E method \in JsonApiMethods, path \in {<<>>, <<"x">>},
          request \in ServerRequests :
          /\ (method # "Update" \/ path # <<>>) => request = <<>>
          /\ config' = callJsonApi(config, method, <<"server">> \o path, request).config
    /\ UNCHANGED <<server, hosted>>
    /\ UNCHANGED clientVars

NextAdmin ==
    \/ ServerCall
    \/ BanlistCall
    \/ Tick

SpecAdmin == InitServer /\ [][NextAdmin]_vars

(***************************************************************************)
(* SpecLimit: one session hosted by Provider, under every sequence of      *)
(* setUserLimit calls, joins, leaves and instructions taken in.            *)
(***************************************************************************)
\* the limits the owner asks for
UserLimits == {1, 2, 3}

\* the owner changes the user limit
CallSetUserLimit ==
    /\ Len(hosted.asked) < MaxInstr
    /\ \E count \in UserLimits :
          /\ session' = [session EXCEPT ![Provider] = setUserLimit(@, count)]
          /\ hosted' = [hosted EXCEPT !.asked = Append(@, count)]
    /\ UNCHANGED <<received, nraster, nack, rasterAcks, nupload, joined, log, inbox,
                   liveAt, discarded, joinedAt, server, config, view>>

\* the server takes in the owner's next instruction and announces the session
Alter ==
    /\ hosted.handled < Len(session[Provider].sent)
    /\ LET h1 == alter(hosted, session[Provider].sent[hosted.handled + 1])
       IN  /\ hosted' = h1
           /\ session' = [session EXCEPT ![Provider] = update(@, infoOf(h1, @.info_))]
    /\ UNCHANGED <<received, nraster, nack, rasterAcks, nupload, joined, log, inbox,
                   liveAt, discarded, joinedAt, server, config, view>>

\* a user asks to join the session
JoinAttempt ==
    /\ hosted.attempts < MaxJoins
    /\ hosted' = join(hosted)
    /\ UNCHANGED <<server, config>>
    /\ UNCHANGED clientVars

\* a member other than the owner leaves the session
LeaveSession ==
    /\ \E user \in hosted.users \ {SessionInfo.owner} : hosted' = leave(hosted, user)
    /\ UNCHANGED <<server, config>>
    /\ UNCHANGED clientVars

InitLimit ==
    /\ session = [m \in Members |-> IF m = Provider THEN Hosting ELSE SessionState]
    /\ received = [m \in Members |-> <<>>]
    /\ nraster = [m \in Members |-> 0]
    /\ nack = [m \in Members |-> 0]
    /\ rasterAcks = [m \in Members |-> 0]
    /\ nupload = [m \in Members |-> 0]
    /\ joined = [m \in Members |-> m = Provider]
    /\ log = <<>>
    /\ inbox = [m \in Members |-> <<>>]
    /\ liveAt = [m \in Members |-> IF m = Provider THEN 0 ELSE -1]
    /\ discarded = [m \in Members |-> 0]
    /\ joinedAt = [m \in Members |-> 0]
    /\ view = CanvasView
    /\ server = MultiServer
    /\ config = ServerConfig(TRUE)
    /\ hosted = [HostedSession EXCEPT !.users = {SessionInfo.owner},
                                      !.lastId = SessionInfo.owner]

NextLimit ==
    \/ CallSetUserLimit
    \/ Alter
    \/ JoinAttempt
    \/ LeaveSession

SpecLimit == InitLimit /\ [][NextLimit]_vars


(***************************************************************************)
(* SpecMembers: a client of the session receives membership notices and    *)
(* session events in any order.                                            *)
(***************************************************************************)
UserInfoMsgs ==
    {UserInfo(event, id, mode) : event \in UserEvents, id \in MemberIds,
                                 mode \in {0, Locked}}

SessionEventMsgs ==
    {SessionEvent(action, target) : action \in SessionActions,
                                    target \in MemberIds \cup {null_user}}

RecvUserInfo(m) ==
    /\ Len(session[m].emitted) < MaxEvents
    /\ \E msg \in UserInfoMsgs :
          session' = [session EXCEPT ![m] = handleUserInfo(@, msg)]
    /\ UNCHANGED <<serverVars, view>>
    /\ UNCHANGED <<received, nraster, nack, rasterAcks, nupload, joined, log, inbox,
                   liveAt, discarded, joinedAt>>

RecvSessionEvent(m) ==
    /\ Len(session[m].emitted) < MaxEvents
    /\ \E msg \in SessionEventMsgs :
          session' = [session EXCEPT ![m] = handleSessionEvent(@, msg)]
    /\ UNCHANGED <<serverVars, view>>
    /\ UNCHANGED <<received, nraster, nack, rasterAcks, nupload, joined, log, inbox,
                   liveAt, discarded, joinedAt>>

NextMembers ==
    \/ RecvUserInfo(Joiner)
    \/ RecvSessionEvent(Joiner)

SpecMembers == Init /\ [][NextMembers]_vars


(***************************************************************************)
(* SpecTransfer: Provider uploads one snapshot to the joining member.      *)
(* Each chunk Provider sends travels to Joiner, each chunk Joiner has      *)
(* handled is acknowledged to Provider, and drawing messages reach Joiner  *)
(* in between.  Every chunk in flight is delivered and every               *)
(* acknowledgement arrives.                                                *)
(***************************************************************************)
InitTransfer ==
    /\ session = [m \in Members |-> IF m = Provider THEN Hosting ELSE SessionState]
    /\ received = [m \in Members |-> <<>>]
    /\ nraster = [m \in Members |-> 0]
    /\ nack = [m \in Members |-> 0]
    /\ rasterAcks = [m \in Members |-> 0]
    /\ nupload = [m \in Members |-> 0]
    /\ joined = [m \in Members |-> TRUE]
    /\ log = <<>>
    /\ inbox = [m \in Members |-> <<>>]
    /\ liveAt = [m \in Members |-> IF m = Provider THEN 0 ELSE -1]
    /\ discarded = [m \in Members |-> 0]
    /\ joinedAt = [m \in Members |-> 0]
    /\ view = CanvasView
    /\ ServerAtRest

\* the controller of Provider passes the serialized picture to sendRaster
StartUpload ==
    /\ Alive(Provider)
    /\ nupload[Provider] = 0
    /\ \E raster \in ByteSeqs(MaxPicture) \ {<<>>} :
          LET s1 == sendRaster(session[Provider], raster)
          IN  /\ session' = [session EXCEPT ![Provider] = s1]
              /\ inbox' = [inbox EXCEPT ![Joiner] = @ \o s1.sent]
    /\ nupload' = [nupload EXCEPT ![Provider] = @ + 1]
    /\ UNCHANGED <<serverVars, view>>
    /\ UNCHANGED <<received, nraster, nack, rasterAcks, joined, log, liveAt, discarded,
                   joinedAt>>

\* the next chunk in flight reaches Joiner and is acknowledged to Provider
DeliverChunk ==
    /\ Alive(Joiner)
    /\ inbox[Joiner] # <<>>
    /\ LET s1 == handleRaster(session[Joiner], Head(inbox[Joiner]))
       IN  /\ session' = [session EXCEPT ![Joiner] = s1]
           /\ liveAt' = LiveAt(Joiner, s1)
    /\ inbox' = [inbox EXCEPT ![Joiner] = Tail(@),
                              ![Provider] = Append(@, AckMsg("Raster"))]
    /\ nraster' = [nraster EXCEPT ![Joiner] = @ + 1]
    /\ UNCHANGED <<serverVars, view>>
    /\ UNCHANGED <<received, nack, rasterAcks, nupload, joined, log, discarded, joinedAt>>

\* the next acknowledgement reaches Provider; what it sends goes in flight
AckChunk ==
    /\ Alive(Provider)
    /\ inbox[Provider] # <<>>
    /\ \E ub \in Outcomes(session[Provider]) :
          LET s1 == handleAck(session[Provider], Head(inbox[Provider]), ub)
          IN  /\ session' = [session EXCEPT ![Provider] = s1]
              /\ inbox' = [inbox EXCEPT
                             ![Provider] = Tail(@),
                             ![Joiner] = @ \o SubSeq(s1.sent,
                                                     Len(session[Provider].sent) + 1,
                                                     Len(s1.sent))]
    /\ rasterAcks' = [rasterAcks EXCEPT ![Provider] = @ + 1]
    /\ nack' = [nack EXCEPT ![Provider] = @ + 1]
    /\ UNCHANGED <<serverVars, view>>
    /\ UNCHANGED <<received, nraster, nupload, joined, log, liveAt, discarded, joinedAt>>

NextTransfer ==
    \/ StartUpload
    \/ DeliverChunk
    \/ AckChunk
    \/ RecvDraw(Joiner)

SpecTransfer ==
    /\ InitTransfer
    /\ [][NextTransfer]_vars
    /\ WF_vars(DeliverChunk)
    /\ WF_vars(AckChunk)

(***************************************************************************)
(* SpecJoin: a joining member is sent drawing operations of the session's  *)
(* members, membership notices and its snapshot in one chunk, in the order *)
(* the server commits them: an operation is of a user who is a member when *)
(* it is sent.                                                             *)
(***************************************************************************)
\* a drawing operation of a current member arrives
RecvMemberDraw(m) ==
    /\ Alive(m)
    /\ Len(received[m]) < MaxDraw
    /\ \E type \in DrawTypes, user \in DOMAIN session[m].users_ :
          LET msg == DrawMsg(type, user, Len(received[m]) + 1)
          IN  /\ session' = [session EXCEPT ![m] = handleDraw(@, msg)]
              /\ received' = [received EXCEPT ![m] = Append(@, msg)]
    /\ UNCHANGED <<serverVars, view>>
    /\ UNCHANGED <<nraster, nack, rasterAcks, nupload, joined, log, inbox, liveAt, discarded, joinedAt>>

NextJoin ==
    \/ RecvMemberDraw(Joiner)
    \/ RecvUserInfo(Joiner)
    \/ RecvRaster(Joiner, Snapshots, MaxUploads)

SpecJoin == Init /\ [][NextJoin]_vars

(***************************************************************************)
(* SpecCanvas: the window system delivers pointer, wheel and key events to *)
(* the CanvasView while the window locks and unlocks it and the scene      *)
(* gains and loses its image.                                              *)
(***************************************************************************)
InitCanvas == Init

\* a mouse button or the stylus is pressed
PenPress ==
    /\ Len(view.emitted) < MaxEmit
    /\ \E button \in Buttons \ {"NoButton"}, ctrl \in BOOLEAN, shift \in BOOLEAN,
          isStylus \in BOOLEAN :
          view' = penPressEvent(view, button, ctrl, shift, isStylus)
    /\ UNCHANGED <<sessionVars, serverVars>>

\* the pointer moves
PenMove ==
    /\ Len(view.emitted) < MaxEmit
    /\ \E moved \in BOOLEAN, dy \in {0, 1} : view' = penMoveEvent(view, moved, dy)
    /\ UNCHANGED <<sessionVars, serverVars>>

\* a mouse button or the stylus is released
PenRelease ==
    /\ Len(view.emitted) < MaxEmit
    /\ \E button \in Buttons : view' = penReleaseEvent(view, button)
    /\ UNCHANGED <<sessionVars, serverVars>>

\* the wheel turns
Wheel ==
    /\ Len(view.emitted) < MaxEmit
    /\ \E ctrl \in BOOLEAN, shift \in BOOLEAN : view' = wheelEvent(view, ctrl, shift)
    /\ UNCHANGED <<sessionVars, serverVars>>

\* the space bar goes down
KeyPress ==
    /\ Len(view.emitted) < MaxEmit
    /\ \E ctrl \in BOOLEAN : view' = keyPressEvent(view, ctrl)
    /\ UNCHANGED <<sessionVars, serverVars>>

\* the space bar goes up
KeyRelease ==
    /\ Len(view.emitted) < MaxEmit
    /\ view' = keyReleaseEvent(view)
    /\ UNCHANGED <<sessionVars, serverVars>>

\* the window locks or unlocks the view
SetLocked ==
    /\ Len(view.emitted) < MaxEmit
    /\ \E lock \in BOOLEAN : view' = setLocked(view, lock)
    /\ UNCHANGED <<sessionVars, serverVars>>

\* the scene gains or loses its image
SceneChange ==
    /\ Len(view.emitted) < MaxEmit
    /\ view' = [view EXCEPT !.hasImage = ~@]
    /\ UNCHANGED <<sessionVars, serverVars>>

NextCanvas ==
    \/ PenPress
    \/ PenMove
    \/ PenRelease
    \/ Wheel
    \/ KeyPress
    \/ KeyRelease
    \/ SetLocked
    \/ SceneChange

SpecCanvas == InitCanvas /\ [][NextCanvas]_vars


(***************************************************************************)
(* What the claims speak of                                                *)
(***************************************************************************)
IsDrawSignal(sg) == sg.sig \in {"toolReceived", "strokeReceived", "strokeEndReceived"}

\* the drawing operations a SessionState has applied, in order
Applied(s) == SelectSeq(s.emitted, IsDrawSignal)

\* the signal that applies a drawing message
DrawSignal(msg) ==
    IF msg.type = "ToolInfo" THEN toolReceived(msg)
    ELSE IF msg.type = "StrokeInfo" THEN strokeReceived(msg)
    ELSE strokeEndReceived(msg)

SignalsOf(msgs) == [i \in 1..Len(msgs) |-> DrawSignal(msgs[i])]

\* this step is member m handling Raster message msg
HandlesRaster(m, msg) ==
    /\ nraster'[m] = nraster[m] + 1
    /\ session'[m] = handleRaster(session[m], msg)

(***************************************************************************)
(* C1.  A Live member has applied every drawing message handed to it,      *)
(* each once and in the order received; what it has applied and what is    *)
(* still in flight to it are together exactly the operations committed     *)
(* since it joined; and two Live members have applied the operations they  *)
(* have in common in the same relative order.                              *)
(***************************************************************************)
\* the drawing messages in flight to member m
PendingDraws(m) == SelectSeq(inbox[m], IsDraw)

\* the operations the session committed since m joined
CommittedSince(m) == SubSeq(log, joinedAt[m] + 1, Len(log))

SameRelativeOrder(a, b) ==
    \A i, j \in 1..Len(a) : \A k, l \in 1..Len(b) :
        i < j /\ a[i] = b[k] /\ a[j] = b[l] => k < l

C1_LiveMembersApplyOnceInOrder ==
    /\ \A m \in Members :
          Live(m)
          => /\ Applied(session[m]) = SignalsOf(received[m])
             /\ Applied(session[m]) \o SignalsOf(PendingDraws(m))
                   = SignalsOf(CommittedSince(m))
    /\ \A m1, m2 \in Members :
          Live(m1) /\ Live(m2)
          => SameRelativeOrder(Applied(session[m1]), Applied(session[m2]))

\* Joiner received MaxLog operations while it awaited its snapshot and drained
\* them when it went Live; Provider applied the same operations as they came
C1_Witness ==
    /\ Live(Provider) /\ Live(Joiner)
    /\ Len(log) = MaxLog
    /\ liveAt[Joiner] = MaxLog
    /\ liveAt[Provider] = 0
    /\ Applied(session[Joiner]) = SignalsOf(log)
    /\ Applied(session[Provider]) = SignalsOf(log)
    /\ \E i \in 1..MaxLog : log[i].type = "ToolInfo"

(***************************************************************************)
(* C2.  At the step that takes a member from buffering to Live, it has     *)
(* applied nothing before, and the step emits rasterReceived(100) and then *)
(* the signal of every drawing message received so far, each once, in the  *)
(* order received, whatever their types; nothing stays buffered.           *)
(***************************************************************************)
C2_SnapshotThenBufferedInOrder ==
    [][\A m \in Members :
          Buffering(m) /\ ~session'[m].bufferdrawing_
          => /\ Applied(session[m]) = <<>>
             /\ session'[m].emitted =
                   session[m].emitted \o <<rasterReceived(100)>> \o SignalsOf(received[m])
             /\ received'[m] = received[m]
             /\ session'[m].drawbuffer_ = <<>>]_vars

\* a member went Live with MaxDraw messages buffered, of different types, and
\* has applied them after rasterReceived(100)
C2_Witness ==
    \E m \in Members :
        /\ Live(m)
        /\ liveAt[m] = MaxDraw
        /\ received[m][1].type # received[m][2].type
        /\ Applied(session[m]) = SignalsOf(received[m])
        /\ session[m].raster_ # <<>>

(***************************************************************************)
(* C3.  While a member buffers, its buffer is exactly the sequence of      *)
(* drawing messages received so far and it has applied none of them.       *)
(***************************************************************************)
C3_BufferedNotApplied ==
    \A m \in Members :
        Buffering(m)
        => /\ session[m].drawbuffer_ = received[m]
           /\ Applied(session[m]) = <<>>

\* a member in the middle of a transfer with MaxDraw messages buffered
C3_Witness ==
    \E m \in Members :
        /\ Buffering(m)
        /\ nraster[m] > 0
        /\ session[m].raster_ # <<>>
        /\ Len(session[m].drawbuffer_) = MaxDraw
        /\ \E i \in 1..MaxDraw : session[m].drawbuffer_[i].type = "StrokeEnd"

(***************************************************************************)
(* C4.  Once Live, a member stays Live under every later message, its      *)
(* buffer is empty after every step, and a drawing message received is     *)
(* applied in the step that receives it.                                   *)
(***************************************************************************)
C4_LiveIsOneWay ==
    [][\A m \in Members :
          /\ ~session'[m].bufferdrawing_ => session'[m].drawbuffer_ = <<>>
          /\ Live(m)
             => /\ ~session'[m].bufferdrawing_
                /\ received'[m] # received[m]
                   => session'[m].emitted =
                         Append(session[m].emitted,
                                DrawSignal(received'[m][Len(received'[m])]))]_vars

\* a Live member that drained a message, then handled a Raster message that
\* restarted the transfer, and applied a drawing message after that
C4_Witness ==
    \E m \in Members :
        /\ Live(m)
        /\ liveAt[m] > 0
        /\ Len(received[m]) > liveAt[m]
        /\ LET e == session[m].emitted
           IN  \E i, j, k \in 1..Len(e) :
                  /\ i < j /\ j < k
                  /\ e[i] = rasterReceived(100)
                  /\ e[j].sig = "rasterReceived" /\ e[j].pct < 100
                  /\ IsDrawSignal(e[k])

(***************************************************************************)
(* C5.  Handling a Raster message of size 0 leaves the member Live and     *)
(* sessionImage then yields the null image.                                *)
(***************************************************************************)
C5_ZeroSizeIsBlank ==
    [][\A m \in Members : \A msg \in RasterMsgs :
          msg.size = 0 /\ HandlesRaster(m, msg)
          => /\ ~session'[m].bufferdrawing_
             /\ sessionImage(session'[m]) = [ok |-> TRUE, image |-> "null"]]_vars

(***************************************************************************)
(* C8.  Handling a Raster message with offset 0 and a size other than 0    *)
(* leaves exactly that message's bytes in raster_.                         *)
(***************************************************************************)
C8_RestartDiscardsPartial ==
    [][\A m \in Members :
          nraster'[m] # nraster[m]
          => \A msg \in RasterMsgs :
                msg.offset = 0 /\ msg.size # 0 /\ HandlesRaster(m, msg)
                => session'[m].raster_ = msg.data]_vars

\* a restart has just discarded partial bytes and put its own in their place
C8_Witness ==
    \E m \in Members :
        /\ Buffering(m)
        /\ discarded[m] > 0
        /\ session[m].raster_ # <<>>

(***************************************************************************)
(* C9.  A Raster message of a non-empty transfer that does not continue    *)
(* the bytes reassembled so far (its offset is neither 0, a restart, nor   *)
(* the length of raster_) or that overruns the size (offset + length       *)
(* exceeds size) is not appended and does not make the member Live.        *)
(***************************************************************************)
Malformed(s, msg) ==
    /\ msg.size # 0
    /\ \/ msg.offset # 0 /\ msg.offset # Len(s.raster_)
       \/ msg.offset + msg.length > msg.size

C9_MalformedChunkRejected ==
    [][\A m \in Members : \A msg \in RasterMsgs :
          Malformed(session[m], msg) /\ HandlesRaster(m, msg)
          => /\ session'[m].raster_ = session[m].raster_
             /\ session'[m].bufferdrawing_ = session[m].bufferdrawing_]_vars

(***************************************************************************)
(* C10.  A member becomes Live only with a snapshot that decodes: when     *)
(* sessionImage fails on the reassembled bytes the member keeps buffering  *)
(* and applies nothing.                                                    *)
(***************************************************************************)
C10_UndecodableSnapshotIsTerminal ==
    [][\A m \in Members :
          Buffering(m) /\ ~sessionImage(session'[m]).ok
          => /\ session'[m].bufferdrawing_
             /\ Applied(session'[m]) = <<>>]_vars

(***************************************************************************)
(* C6.  sendRaster with an empty buffer sends exactly one Raster message,  *)
(* with offset 0, length 0 and size 0.                                     *)
(***************************************************************************)
C6_EmptySnapshotSendsOneChunk ==
    [][\A m \in Members :
          /\ nupload'[m] = nupload[m] + 1
          /\ session'[m] = sendRaster([session[m] EXCEPT !.sent = <<>>], <<>>)
          => session'[m].sent = <<RasterMsg(0, 0, <<>>)>>]_vars

(***************************************************************************)
(* C7.  The upload is paced by the receiver: a sendRaster call sends at    *)
(* most one chunk, every other chunk is sent by the step that handles an   *)
(* Acknowledgement(Raster), one chunk per acknowledgement, and so the      *)
(* chunks sent since sendRaster never exceed 1 + the Raster                *)
(* acknowledgements handled since then.                                    *)
(***************************************************************************)
C7_UploadIsReceiverPaced ==
    [][\A m \in Members :
          /\ Len(session'[m].sent) <= 1 + rasterAcks'[m]
          /\ nupload'[m] # nupload[m] => Len(session'[m].sent) <= 1
          /\ nupload'[m] = nupload[m] /\ session'[m].sent # session[m].sent
             => /\ rasterAcks'[m] = rasterAcks[m] + 1
                /\ Len(session'[m].sent) = Len(session[m].sent) + 1]_vars

\* an upload of more than one chunk: the second chunk went out on the first
\* acknowledgement
C7_Witness ==
    \E m \in Members :
        /\ nupload[m] = 1
        /\ ~session[m].crashed
        /\ rasterAcks[m] = 1
        /\ Len(session[m].sent) = 2
        /\ session[m].sent[1].offset = 0
        /\ session[m].sent[2].offset = chunklen
        /\ session[m].sent[2].size = MaxSnapshot

(***************************************************************************)
(* The server: admission, bans, lifecycle                                  *)
(***************************************************************************)
\* the client object newClient makes in this step, 0 if the step makes none
NewPeer == IF Len(server'.peers) = Len(server.peers) + 1 THEN Len(server'.peers) ELSE 0

\* the clients the registry holds
Users == DOMAIN server.m_sessions.users

(***************************************************************************)
(* C11: a connection from a banned address is rejected before admission:   *)
(* it is kicked, the registry never gets it (no addClient, no user), and   *)
(* the registry - its users, their sessions, the session list, hence       *)
(* totalUsers and sessionCount - is as before.                             *)
(***************************************************************************)
C11_BannedIsRejected ==
    [][ (NewPeer # 0 /\ isAddressBanned(config, server'.peers[NewPeer]))
        => /\ NewPeer \in server'.kicked
           /\ NewPeer \notin DOMAIN server'.m_sessions.users
           /\ server'.m_sessions = server.m_sessions
           /\ totalUsers(server'.m_sessions) = totalUsers(server.m_sessions)
           /\ sessionCount(server'.m_sessions) = sessionCount(server.m_sessions) ]_vars

\* a banned connection was kicked while a user sits in a session
C11_Witness ==
    /\ server.kicked # {}
    /\ \E client \in Users : server.m_sessions.users[client] # 0

(***************************************************************************)
(* C12: the ban list is consulted at admission only: no change of the      *)
(* configuration - a ban entry created or deleted, an entry expiring -     *)
(* disconnects or removes a client or changes anything else of the server. *)
(***************************************************************************)
C12_BanNeverDisconnects ==
    [][ config' # config => server' = server ]_vars

\* a client is connected whose address a ban entry created later covers
C12_Witness ==
    \E client \in Users : isAddressBanned(config, server.peers[client])

(***************************************************************************)
(* C13: in every reachable state the members of a session are at most its  *)
(* user limit - also after setUserLimit changed the limit while members    *)
(* are present.                                                            *)
(***************************************************************************)
C13_MembersWithinLimit == Cardinality(hosted.users) <= hosted.maxusers

(***************************************************************************)
(* C13, amended: no join takes the membership above the user limit: a join *)
(* succeeds only below the limit and fails Full at or above it; a          *)
(* setUserLimit call makes the limit the count passed, removes no member   *)
(* and changes nothing else of the session, so the members exceed the      *)
(* limit only after the limit was set below their number.                  *)
(***************************************************************************)
C13_JoinsRespectLimit ==
    [][ /\ (hosted'.attempts # hosted.attempts)
           => IF Cardinality(hosted.users) >= hosted.maxusers
              THEN hosted'.attempts \in hosted'.refused /\ hosted'.users = hosted.users
              ELSE /\ hosted'.refused = hosted.refused
                   /\ Cardinality(hosted'.users) = Cardinality(hosted.users) + 1
                   /\ Cardinality(hosted'.users) <= hosted.maxusers
        /\ (hosted'.handled # hosted.handled)
           => /\ hosted'.maxusers = hosted.asked[hosted'.handled]
              /\ hosted'.users = hosted.users
              /\ hosted'.mode = hosted.mode
              /\ hosted'.width = hosted.width /\ hosted'.height = hosted.height
        /\ Cardinality(hosted'.users) > hosted'.maxusers
           => Cardinality(hosted'.users) <= Cardinality(hosted.users) ]_vars

\* the limit was set below the number of members and a join was refused then
C13_Witness ==
    /\ hosted.handled > 0
    /\ Cardinality(hosted.users) > hosted.maxusers
    /\ hosted.refused # {}
    /\ \E sg \in {session[Provider].emitted[i] : i \in 1..Len(session[Provider].emitted)} :
          sg.sig = "userLimitChanged"

C15_VacantNeverRunning ==
    ~ /\ Running
      /\ server.m_state = "RUNNING"
      /\ server.m_autoStop
      /\ sessionCount(server.m_sessions) = 0
      /\ totalUsers(server.m_sessions) = 0

(***************************************************************************)
(* C15, amended: with auto-stop enabled, whenever a user disconnect or a   *)
(* session end leaves the RUNNING server with sessionCount and totalUsers  *)
(* both 0, the server leaves RUNNING within the handling of that event.    *)
(***************************************************************************)
C15_VacatedServerStops ==
    [][ ( /\ server.m_state = "RUNNING"
          /\ server.m_autoStop
          /\ \/ totalUsers(server'.m_sessions) < totalUsers(server.m_sessions)
             \/ sessionCount(server'.m_sessions) < sessionCount(server.m_sessions)
          /\ sessionCount(server'.m_sessions) = 0
          /\ totalUsers(server'.m_sessions) = 0 )
        => server'.m_state # "RUNNING" ]_vars

\* auto-stop closed the listener once the last session had ended
C15_Witness ==
    /\ server.autoStopped
    /\ server.closes = 1
    /\ server.m_server = "closed"
    /\ server.stopAlls = 1

(***************************************************************************)
(* C16: serverStopped is emitted at most once, and exactly once if the     *)
(* server is STOPPED - also when stop() is entered again from the handler  *)
(* of userDisconnected while stopAll() runs inside an outer stop().        *)
(***************************************************************************)
C16_StoppedEmittedOnce ==
    /\ server.serverStopped <= 1
    /\ server.m_state = "STOPPED" <=> server.serverStopped = 1

\* the server is STOPPED after the handler ran inside stopAll()
C16_Witness ==
    /\ server.reentered
    /\ server.m_state = "STOPPED"
    /\ server.serverStopped = 1

(***************************************************************************)
(* C17: graceful stop drains before it reports: the server is STOPPED, and *)
(* serverStopped emitted, only with totalUsers 0; while a user remains     *)
(* connected after stop() the server stays STOPPING.                       *)
(***************************************************************************)
C17_StoppedOnlyWhenDrained ==
    /\ server.m_state = "STOPPED" => totalUsers(server.m_sessions) = 0
    /\ server.serverStopped > 0 => totalUsers(server.m_sessions) = 0
    /\ (server.stopAlls > 0 /\ totalUsers(server.m_sessions) > 0)
       => server.m_state = "STOPPING"

\* stop() has returned and users are still connected
C17_Witness ==
    /\ server.m_state = "STOPPING"
    /\ server.m_server = "closed"
    /\ server.serverStopped = 0
    /\ totalUsers(server.m_sessions) > 0

\* the states in which stop() is called while the server runs: any state of
\* the server, for a call from outside, and the state in which the handler of
\* userDisconnected runs, the user already dropped by the registry
CallStates ==
    IF server.crashed THEN {}
    ELSE {server} \cup {[server EXCEPT !.m_sessions = removeUser(@, client)] :
                            client \in Users}

(***************************************************************************)
(* C18: a stop() call made while the server is STOPPING or STOPPED is a    *)
(* no-op: it changes no state and emits nothing.                           *)
(***************************************************************************)
C18_RepeatedStopIsNoOp ==
    \A s \in CallStates :
        s.m_state \in {"STOPPING", "STOPPED"} => stop(s, "defined", {}, {}) = s

(***************************************************************************)
(* C18, amended: a stop() call made while the server is STOPPING or        *)
(* STOPPED never closes the listener and never calls stopAll again.  It is *)
(* a no-op while STOPPED and while STOPPING with a user still connected;   *)
(* made while STOPPING with no user left - the call of the handler of      *)
(* userDisconnected after the last disconnect - it completes the stop: the *)
(* state becomes STOPPED and serverStopped is emitted once.                *)
(***************************************************************************)
C18_RepeatedStopOnlyCompletes ==
    \A s \in CallStates :
        s.m_state \in {"STOPPING", "STOPPED"}
        => LET r == stop(s, "defined", {}, {})
           IN  /\ r.closes = s.closes
               /\ r.stopAlls = s.stopAlls
               /\ IF s.m_state = "STOPPING" /\ totalUsers(s.m_sessions) = 0
                  THEN r = [s EXCEPT !.m_state = "STOPPED",
                                     !.serverStopped = s.serverStopped + 1]
                  ELSE r = s

\* the server is STOPPING with one user left: the next disconnect completes it
C18_Witness ==
    /\ server.m_state = "STOPPING"
    /\ totalUsers(server.m_sessions) = 1
    /\ ~server.crashed

(***************************************************************************)
(* C19: once stop() has taken the server out of RUNNING the accept path is *)
(* closed: the listener does not listen, and no step made while STOPPING   *)
(* or STOPPED creates a client or adds one to the registry.                *)
(***************************************************************************)
C19_NoAdmissionAfterStop ==
    [][ server.m_state \in {"STOPPING", "STOPPED"}
        => /\ server.m_server # "listening"
           /\ NewPeer = 0
           /\ DOMAIN server'.m_sessions.users \subseteq DOMAIN server.m_sessions.users ]_vars

\* the server is STOPPING, users remain, and the listener could still be
\* asked for connections
C19_Witness ==
    /\ server.m_state = "STOPPING"
    /\ server.closes = 1
    /\ Len(server.peers) < MaxConns
    /\ Users # {}

(***************************************************************************)
(* C20: an Update on `server' answers Ok and changes only the settings     *)
(* whose keys the request carries: every setting absent from the request   *)
(* keeps its value, every setting present takes the requested value as     *)
(* text (a string as it is, a number or a boolean written out, the empty   *)
(* text for a value that is none of these), and the ban list is untouched. *)
(***************************************************************************)
C20_UpdateChangesOnlyPresentKeys ==
    \A request \in ServerRequests :
        LET result == callJsonApi(config, "Update", <<"server">>, request)
        IN  /\ result.status = "Ok"
            /\ \A key \in SettingNames :
                  getConfigVariant(result.config, key) =
                      IF key \in DOMAIN request
                      THEN toVariantString(request[key])
                      ELSE getConfigVariant(config, key)
            /\ result.config.bans = config.bans
            /\ result.config.nextBan = config.nextBan

\* two Updates have set two settings, one each, and a third was never named
C20_Witness ==
    /\ getConfigVariant(config, ServerSettings[1]) = "3"
    /\ getConfigVariant(config, ServerSettings[6]) = "t"
    /\ getConfigVariant(config, ServerSettings[settingCount]) = ""
    /\ config.bans # {}

(***************************************************************************)
(* The administrative calls the claims below range over: every verb, on    *)
(* every kind of path, with every kind of body.                            *)
(***************************************************************************)
\* bodies of a Create on the ban list: each key present or not; an address
\* that parses, one that does not, one that is no string; a subnet size as a
\* number or as text; an expiration that parses, one that does not, one that
\* is no string
CreateRequests ==
    UNION {{[k \in keys |-> CASE k = "ip" -> ip
                              [] k = "subnet" -> subnet
                              [] k = "expiration" -> exp
                              [] k = "comment" -> JString("c")] :
               ip \in {JString(AddrText[1]), JString("localhost"), JNumber(1)},
               subnet \in {JNumber(1), JString("1")},
               exp \in {JString(TimeText[1]), JString("tomorrow"), JNumber(1)}} :
           keys \in SUBSET {"ip", "subnet", "expiration", "comment"}}

\* paths: none, an unknown root, each root, each root with segments below it
AdminPaths ==
    {<<>>, <<"x">>, <<"server">>, <<"server", "x">>, <<"sessions">>,
     <<"banlist">>, <<"banlist", "1">>, <<"banlist", "2">>, <<"banlist", "x">>,
     <<"banlist", "1", "x">>}

\* the text is a timestamp in the format yyyy-MM-dd HH:mm:ss
Parseable(text) == \E i \in 1..Len(TimeText) : TimeText[i] = text

\* the text is an address
ValidAddress(text) == \E a \in Addrs : AddrText[a + 1] = text

(***************************************************************************)
(* C21: a Create on `banlist' whose expiration does not parse as           *)
(* yyyy-MM-dd HH:mm:ss leaves the configuration, the ban list included,    *)
(* as it was, and on a server that has a ban list (its configuration is a  *)
(* database) it answers BadRequest.                                        *)
(***************************************************************************)
C21_UnparseableExpirationIsBadRequest ==
    \A request \in CreateRequests :
        ~Parseable(toString(valueOf(request, "expiration")))
        => LET result == callJsonApi(config, "Create", <<"banlist">>, request)
           IN  /\ result.config = config
               /\ config.database => result.status = "BadRequest"

\* a ban list that holds an entry, before it expires
C21_Witness ==
    /\ config.database
    /\ Cardinality(config.bans) = 1
    /\ config.now = 0

(***************************************************************************)
(* C22: a Create on `banlist' adds an entry only if the request carries a  *)
(* valid address, a subnet size and a parseable expiration; a request      *)
(* whose address is invalid or missing, or that carries no subnet size,    *)
(* answers BadRequest and adds no entry; a request that carries all three  *)
(* answers Ok and adds one entry, with or without a comment.               *)
(***************************************************************************)
C22_CreateRequiresAddressAndSubnet ==
    config.database
    => \A request \in CreateRequests :
          LET result == callJsonApi(config, "Create", <<"banlist">>, request)
              address == ValidAddress(toString(valueOf(request, "ip")))
              subnet == valueOf(request, "subnet").t = "number"
              expiration == Parseable(toString(valueOf(request, "expiration")))
          IN  /\ result.config.bans # config.bans => address /\ subnet /\ expiration
              /\ ~address \/ ~subnet
                 => result.status = "BadRequest" /\ result.config = config
              /\ address /\ subnet /\ expiration
                 => /\ result.status = "Ok"
                    /\ Cardinality(result.config.bans) = Cardinality(config.bans) + 1

(***************************************************************************)
(* C23: status codes.  NotFound: a path whose root is none of server,      *)
(* sessions and banlist, a segment below `server', two or more segments    *)
(* below `banlist', a Delete of a ban id the list does not hold.           *)
(* BadMethod: a verb the resource does not support - anything but Get and  *)
(* Update on `server', anything but Get and Create on `banlist', anything  *)
(* but Delete on `banlist/<id>'.  The ban list is a resource of a server   *)
(* whose configuration is a database; on any other server every path       *)
(* below `banlist' is NotFound.                                            *)
(***************************************************************************)
C23_StatusCodes ==
    \A method \in JsonApiMethods, path \in AdminPaths :
        LET status == callJsonApi(config, method, path, <<>>).status
            root == IF path = <<>> THEN "" ELSE Head(path)
        IN  /\ root \notin {"server", "sessions", "banlist"} => status = "NotFound"
            /\ root = "server" /\ Len(path) > 1 => status = "NotFound"
            /\ root = "server" /\ Len(path) = 1 /\ method \notin {"Get", "Update"}
               => status = "BadMethod"
            /\ root = "banlist" /\ ~config.database => status = "NotFound"
            /\ root = "banlist" /\ config.database
               => /\ Len(path) > 2 => status = "NotFound"
                  /\ Len(path) = 2 /\ method # "Delete" => status = "BadMethod"
                  /\ Len(path) = 2 /\ method = "Delete"
                     /\ ~hasBan(config, pathToInt(path[2]))
                     => status = "NotFound"
                  /\ Len(path) = 1 /\ method \notin {"Get", "Create"}
                     => status = "BadMethod"

\* a ban was created and deleted: its id no longer exists
C23_Witness ==
    /\ config.database
    /\ config.nextBan = 2
    /\ config.bans = {}

(***************************************************************************)
(* C24: a call on `server' or `banlist' that answers BadRequest, NotFound  *)
(* or BadMethod has no side effect: the settings and the ban list are      *)
(* exactly as before the call.                                             *)
(***************************************************************************)
C24_ErrorsHaveNoSideEffect ==
    \A method \in JsonApiMethods, path \in AdminPaths,
       request \in CreateRequests \cup {r \in ServerRequests : Cardinality(DOMAIN r) = 1} :
        LET result == callJsonApi(config, method, path, request)
        IN  result.status \in {"BadRequest", "NotFound", "BadMethod"}
            => result.config = config

\* a setting has been changed and a ban has been added: both could be lost
C24_Witness ==
    /\ config.database
    /\ config.bans # {}
    /\ getConfigVariant(config, ServerSettings[1]) = "true"

(***************************************************************************)
(* C25: a departure notice - a UserInfo whose event is Leave, Disconnect,  *)
(* BrokenPipe, TimedOut, Dropped or Kicked - for a current member removes  *)
(* exactly that user from the membership and leaves every other member as  *)
(* it was; for an id that is no member it changes no membership.           *)
(***************************************************************************)
C25_DepartureRemovesExactlyThatUser ==
    \A msg \in UserInfoMsgs :
        msg.event \in Departures
        => LET s == session[Joiner]
               r == handleUserInfo(s, msg)
           IN  IF hasUser(s, msg.user_id)
               THEN /\ DOMAIN r.users_ = DOMAIN s.users_ \ {msg.user_id}
                    /\ \A id \in DOMAIN r.users_ : r.users_[id] = s.users_[id]
               ELSE r.users_ = s.users_

\* three members, one of them locked: a departure of one leaves two
C25_Witness ==
    /\ DOMAIN session[Joiner].users_ = MemberIds
    /\ \E id \in MemberIds : session[Joiner].users_[id].locked

(***************************************************************************)
(* C26: the lock flag of a member and the lock of the session are          *)
(* independent.  A Lock or Unlock that targets a member sets the flag of   *)
(* that member and leaves the session lock and every other member's flag   *)
(* as they were; a Lock or Unlock with no target sets the session lock and *)
(* leaves every member's flag as it was.  So flag and session lock take    *)
(* every combination, and a member is silenced when either is set.         *)
(***************************************************************************)
C26_LocksAreIndependent ==
    \A msg \in SessionEventMsgs :
        msg.action \in {"Lock", "Unlock"}
        => LET s == session[Joiner]
               r == handleSessionEvent(s, msg)
           IN  /\ DOMAIN r.users_ = DOMAIN s.users_
               /\ msg.target # null_user /\ hasUser(s, msg.target)
                  => /\ r.users_[msg.target].locked = (msg.action = "Lock")
                     /\ r.lock_ = s.lock_
                     /\ \A id \in DOMAIN s.users_ \ {msg.target} :
                           r.users_[id] = s.users_[id]
               /\ msg.target = null_user
                  => /\ r.lock_ = (msg.action = "Lock")
                     /\ r.users_ = s.users_

\* the session is locked, one member's own flag is set and another's is not
C26_Witness ==
    /\ session[Joiner].lock_
    /\ \E id, other \in DOMAIN session[Joiner].users_ :
          /\ session[Joiner].users_[id].locked
          /\ ~session[Joiner].users_[other].locked

Chunks == session[Provider].sent

\* the byte after the last byte of a chunk
EndOf(chunk) == chunk.offset + chunk.length

\* how many of the chunks Joiner has handled
Handled == Len(Chunks) - Len(inbox[Joiner])

\* the number of chunks a snapshot of n bytes takes: n / chunklen, rounded up
ChunksOf(n) == (n + chunklen - 1) \div chunklen

(***************************************************************************)
(* C28: chunking round trip.  For a non-empty snapshot of n bytes every    *)
(* chunk Provider sends carries the session id and the size n and holds    *)
(* between 1 and chunklen bytes of the snapshot; the first starts at       *)
(* offset 0, each next one where the one before it ended, and the last     *)
(* ends at n.  Handled in that order by handleRaster they rebuild the      *)
(* snapshot byte for byte, and Joiner goes Live on the chunk that ends at  *)
(* n and on no earlier one.                                                *)
(***************************************************************************)
C28_ChunkingRoundTrip ==
    nupload[Provider] = 1
    => LET p == session[Provider]
           j == session[Joiner]
           n == Chunks[1].size
       IN  /\ ~p.crashed
           /\ Chunks # <<>>
           /\ \A i \in DOMAIN Chunks :
                 /\ Chunks[i].session_id = p.info_.id
                 /\ Chunks[i].size = n
                 /\ Chunks[i].length \in 1..chunklen
                 /\ Len(Chunks[i].data) = Chunks[i].length
                 /\ Chunks[i].offset = IF i = 1 THEN 0 ELSE EndOf(Chunks[i - 1])
                 /\ EndOf(Chunks[i]) <= n
           /\ p.raster_ # <<>>
              => /\ Len(p.raster_) = n
                 /\ p.rasteroffset_ = EndOf(Chunks[Len(Chunks)])
                 /\ \A i \in DOMAIN Chunks :
                       Chunks[i].data = SubSeq(p.raster_, Chunks[i].offset + 1,
                                               EndOf(Chunks[i]))
           /\ p.raster_ = <<>> => EndOf(Chunks[Len(Chunks)]) = n
           /\ Len(j.raster_) = IF Handled = 0 THEN 0 ELSE EndOf(Chunks[Handled])
           /\ \A i \in 1..Handled :
                 SubSeq(j.raster_, Chunks[i].offset + 1, EndOf(Chunks[i])) = Chunks[i].data
           /\ p.raster_ # <<>> /\ Len(j.raster_) = n => j.raster_ = p.raster_
           /\ Live(Joiner) <=> Handled > 0 /\ EndOf(Chunks[Handled]) = n

\* a snapshot of three chunks, the last one short, has been rebuilt by Joiner
\* while drawing messages arrived
C28_Witness ==
    /\ Len(Chunks) = 3
    /\ Handled = 3
    /\ Chunks[3].length < chunklen
    /\ Live(Joiner)
    /\ received[Joiner] # <<>>

(***************************************************************************)
(* C29: upload completion.  After sendRaster of a non-empty snapshot of n  *)
(* bytes Provider sends one chunk and one more for each acknowledgement,   *)
(* ceil(n / chunklen) in all; while chunks remain it holds the buffer and  *)
(* is uploading; the acknowledgement of the last chunk sends nothing,      *)
(* sets the offset to 0 and releases the buffer, and from then on          *)
(* isUploading() is false and stays false whatever acknowledgement         *)
(* arrives.  With every chunk answered the upload does complete.           *)
(***************************************************************************)
C29_UploadInvariant ==
    nupload[Provider] = 1
    => LET p == session[Provider]
           acks == rasterAcks[Provider]
           chunks == ChunksOf(Chunks[1].size)
       IN  /\ acks <= chunks
           /\ Len(Chunks) = IF acks < chunks THEN acks + 1 ELSE chunks
           /\ acks < chunks => p.raster_ # <<>> /\ isUploading(p)
           /\ acks = chunks
              => /\ p.raster_ = <<>>
                 /\ p.rasteroffset_ = 0
                 /\ ~isUploading(p)
                 /\ \A event \in AckEvents, ub \in Outcomes(p) :
                       LET r == handleAck(p, AckMsg(event), ub)
                       IN  /\ ~isUploading(r)
                           /\ r.sent = p.sent
                           /\ r.raster_ = <<>>

C29_UploadCompletes ==
    /\ []C29_UploadInvariant
    /\ nupload[Provider] = 1
       ~> /\ Chunks # <<>>
          /\ rasterAcks[Provider] = ChunksOf(Chunks[1].size)
          /\ ~isUploading(session[Provider])

\* a snapshot that fills its last chunk has been sent and acknowledged
C29_Witness ==
    /\ Len(Chunks) = 2
    /\ Chunks[1].size = 2 * chunklen
    /\ rasterAcks[Provider] = 2
    /\ session[Provider].raster_ = <<>>

(***************************************************************************)
(* C30: stop completes.  Once stop() has put the server into STOPPING,     *)
(* with every connected user disconnecting sooner or later, the server     *)
(* reaches STOPPED and serverStopped is emitted; and a stop() called with  *)
(* no user connected reaches STOPPED within that call.                     *)
(***************************************************************************)
C30_StopCompletes ==
    /\ server.m_state = "STOPPING"
       ~> server.m_state = "STOPPED" /\ server.serverStopped = 1
    /\ [][ /\ server.m_state = "RUNNING"
           /\ server'.m_state # "RUNNING"
           /\ totalUsers(server.m_sessions) = 0
           => server'.m_state = "STOPPED" /\ server'.serverStopped = 1 ]_vars

\* the same of a server whose process is alive: one that stop() did not crash
C30_StopCompletesUnlessCrashed ==
    /\ server.m_state = "STOPPING" /\ ~server.crashed
       ~> server.m_state = "STOPPED" /\ server.serverStopped = 1
    /\ [][ /\ server.m_state = "RUNNING"
           /\ server'.m_state # "RUNNING"
           /\ ~server'.crashed
           /\ totalUsers(server.m_sessions) = 0
           => server'.m_state = "STOPPED" /\ server'.serverStopped = 1 ]_vars

\* the signals a step appended to a sequence of emitted signals
NewSignals(before, after) == {after[i] : i \in Len(before) + 1 .. Len(after)}

\* the stroke signals among the signals a CanvasView emitted, in order
StrokeSignals(emitted) ==
    SelectSeq(emitted, LAMBDA sg : sg \in {penDown, penMove, penUp})

\* a stroke is open before the i-th stroke signal: a penDown came before it
\* with nothing but penMove in between
StrokeOpen(p, i) ==
    \E j \in 1..(i - 1) : p[j] = penDown /\ \A k \in (j + 1)..(i - 1) : p[k] = penMove

\* penDown only opens a stroke when none is open; penMove and penUp come
\* only in an open stroke
WellBracketed(emitted) ==
    LET p == StrokeSignals(emitted)
    IN  \A i \in 1..Len(p) :
           IF p[i] = penDown THEN ~StrokeOpen(p, i) ELSE StrokeOpen(p, i)

(***************************************************************************)
(* C31: a received message whose tag its handler does not recognise - an   *)
(* Acknowledgement with an unknown event, a UserInfo with an unknown       *)
(* event, a SessionEvent with an unknown action - raises an error: the     *)
(* handler does not leave the object as if nothing had arrived.            *)
(***************************************************************************)
C31_UnknownTagRaisesError ==
    LET s == session[Joiner]
    IN  /\ \A ub \in Outcomes(s) : handleAck(s, AckMsg("Other"), ub) # s
        /\ \A msg \in UserInfoMsgs : msg.event = "Other" => handleUserInfo(s, msg) # s
        /\ \A msg \in SessionEventMsgs :
              /\ msg.action = "Other"
              /\ msg.target = null_user \/ hasUser(s, msg.target)
              => handleSessionEvent(s, msg) # s

(***************************************************************************)
(* C32: a CanvasView never emits quickAdjust while the pen is down: no     *)
(* step emits it unless m_pendown is NOTDOWN, and with the pen down        *)
(* neither a wheel event (shift or not) nor a pointer move (drag or not)   *)
(* emits it.                                                               *)
(***************************************************************************)
C32_NoQuickAdjustWhilePenDown ==
    /\ [][(quickAdjust \in NewSignals(view.emitted, view'.emitted))
          => view.m_pendown = "NOTDOWN" /\ view'.m_pendown = "NOTDOWN"]_vars
    /\ [](view.m_pendown # "NOTDOWN"
          => /\ view.m_dragmode = "None"
             /\ \A ctrl \in BOOLEAN, shift \in BOOLEAN :
                   wheelEvent(view, ctrl, shift).emitted = view.emitted
             /\ \A moved \in BOOLEAN, dy \in {0, 1} :
                   quickAdjust \notin
                      NewSignals(view.emitted, penMoveEvent(view, moved, dy).emitted))

\* the brush was adjusted, then a stroke began with the stylus and is going on
C32_Witness ==
    /\ view.m_pendown = "TABLETDOWN"
    /\ view.emitted = <<quickAdjust, penDown, penMove>>

(***************************************************************************)
(* C33: whenever a member goes Live through handleRaster on a message that *)
(* is in order, its receive buffer holds exactly `size' bytes: those of    *)
(* the transfer that completed, none for a zero-size transfer.             *)
(***************************************************************************)
C33_LiveHoldsWholeSnapshot ==
    [][\A msg \in RasterMsgs :
          /\ HandlesRaster(Joiner, msg)
          /\ ~Malformed(session[Joiner], msg)
          /\ session[Joiner].bufferdrawing_
          /\ ~session'[Joiner].bufferdrawing_
          => Len(session'[Joiner].raster_) = msg.size]_vars

(***************************************************************************)
(* C34: every Raster chunk a client sends comes from the buffer last       *)
(* passed to sendRaster.  A client that was never asked to upload sends no *)
(* chunk, whatever acknowledgement arrives and whatever snapshot it holds; *)
(* and a Raster message received while an upload is in progress changes    *)
(* neither the buffer the remaining chunks are cut from nor the offset of  *)
(* the next one.                                                           *)
(***************************************************************************)
C34_ChunksComeFromUploadBuffer ==
    /\ [](nupload[Provider] = 0 => session[Provider].sent = <<>>)
    /\ [][\A msg \in InterfereMsgs :
             /\ HandlesRaster(Provider, msg)
             /\ isUploading(session[Provider])
             => /\ session'[Provider].raster_ = session[Provider].raster_
                /\ session'[Provider].rasteroffset_ = session[Provider].rasteroffset_]_vars

(***************************************************************************)
(* C35: whenever a client applies a drawing operation of user u - emits    *)
(* toolReceived, strokeReceived or strokeEndReceived for u - u is a member *)
(* of the session as the client knows it at that moment.                   *)
(***************************************************************************)
C35_AppliedOperationIsOfMember ==
    [][\A sg \in NewSignals(session[Joiner].emitted, session'[Joiner].emitted) :
          IsDrawSignal(sg) => hasUser(session'[Joiner], sg.user)]_vars

(***************************************************************************)
(* C36: after any sequence of UserInfo and SessionEvent messages the       *)
(* recorded owner of the session is the id of a current member.            *)
(***************************************************************************)
C36_OwnerIsMember == hasUser(session[Joiner], session[Joiner].info_.owner)

(***************************************************************************)
(* C37: whenever the server is RUNNING a listener object exists, so that   *)
(* stop() can close it; a start() that fails - the listener could not be   *)
(* created or could not listen - leaves the server NOT_STARTED.            *)
(***************************************************************************)
C37_RunningHasListener ==
    /\ server.m_state = "RUNNING" => server.m_server # "null"
    /\ \A s \in CallStates, validCert \in BOOLEAN, listens \in BOOLEAN :
          /\ s.m_state = "NOT_STARTED"
          /\ ~(validCert /\ listens)
          => start(s, validCert, listens).m_state = "NOT_STARTED"

(***************************************************************************)
(* C38: the lifecycle only moves forward, NOT_STARTED to RUNNING to        *)
(* STOPPING to STOPPED.  No step leaves STOPPED, none takes STOPPING or    *)
(* RUNNING back to an earlier state, none takes NOT_STARTED anywhere but   *)
(* to RUNNING; STOPPED is only ever set in a server that is STOPPING; and  *)
(* stop() and tryAutoStop() change nothing in a server that is             *)
(* NOT_STARTED.                                                            *)
(***************************************************************************)
C38_LifecycleMovesForward ==
    /\ [][ /\ server.m_state = "STOPPED" => server'.m_state = "STOPPED"
           /\ server.m_state = "STOPPING"
              => server'.m_state \in {"STOPPING", "STOPPED"}
           /\ server.m_state = "RUNNING"
              => server'.m_state \in {"RUNNING", "STOPPING", "STOPPED"}
           /\ server.m_state = "NOT_STARTED"
              => server'.m_state \in {"NOT_STARTED", "RUNNING"} ]_vars
    /\ [](\A s \in CallStates :
            /\ finishStop(s).m_state = "STOPPED"
               => s.m_state \in {"STOPPING", "STOPPED"}
            /\ s.m_state = "RUNNING"
               => \A ub \in closeOutcomes(s) :
                     beginStop(s, ub, {}, {}).m_state \in {"STOPPING", "STOPPED"}
            /\ s.m_state = "NOT_STARTED"
               => \A ub \in closeOutcomes(s) :
                     stop(s, ub, {}, {}) = s /\ tryAutoStop(s, ub) = s)

\* an auto-stopped server that had turned a banned address away
C38_Witness ==
    /\ server.m_state = "STOPPED"
    /\ server.autoStopped
    /\ server.kicked # {}

(***************************************************************************)
(* C39: the stroke signals a CanvasView has emitted are well bracketed:    *)
(* every penDown is followed by exactly one penUp before the next penDown, *)
(* and penMove and penUp come only between a penDown and its penUp.        *)
(***************************************************************************)
C39_StrokesAreBracketed == WellBracketed(view.emitted)

====
